---- MODULE Spec2Model ----
(***************************************************************************)
(* AudioTranscriber: the batch transcription orchestrator                  *)
(* (transcription/batch_processor.py), the transcriber outcome it consumes *)
(* (transcription/transcriber.py) and the interval-timestamp synthesis     *)
(* (utilities/format_utils.py), as state machines.                         *)
(*                                                                         *)
(* One thread executes process_batch; its position is pc, named after the  *)
(* source line it is about to execute.  Other threads call cancel() and    *)
(* get_statistics() at any moment.  Seconds are whole numbers.             *)
(*                                                                         *)
(* The front ends (audio_transcribe_cli.py, ui/tabs/batch_tab.py,          *)
(* ui/tabs/single_file_tab.py) drive the processor and the model manager:  *)
(* fe_pc is the position of the CLI's main thread or of a GUI worker.      *)
(*                                                                         *)
(* The static utilities (utilities/date_parser.py, utilities/format_utils  *)
(* .py) and the assembly of the transcript header are also called on their *)
(* own; their texts are sequences of one-character strings.                *)
(***************************************************************************)
EXTENDS Integers, Sequences, FiniteSets, TLC

\* ------------------------------------------------------------------ bounds
\* Largest number of entries the input folder tree holds.
MaxFiles == 2
\* Largest number of segments handed to insert_interval_timestamps.
MaxSegs == 2
\* Largest segment start, in seconds.
MaxStart == 3

\* ------------------------------------------------------------ file system
\* The entries an input folder tree may hold, in ascending order of their
\* full path as Python compares strings ("a.WAV" < "a.mp3" < "b.mp3" <
\* "notes.txt" < "sub/a.mp3").
PathUniverse ==
    << [dir |-> "", stem |-> "a", ext |-> "WAV"],
       [dir |-> "", stem |-> "a", ext |-> "mp3"],
       [dir |-> "", stem |-> "b", ext |-> "mp3"],
       [dir |-> "", stem |-> "notes", ext |-> "txt"],
       [dir |-> "sub", stem |-> "a", ext |-> "mp3"] >>

PathSet == {PathUniverse[k] : k \in 1..Len(PathUniverse)}

\* Position of a path in the ascending order of full paths.
Rank(p) == CHOOSE k \in 1..Len(PathUniverse) : PathUniverse[k] = p

\* str.lower() on the extensions of the universe.
Lower(e) == IF e = "WAV" THEN "wav" ELSE e

AUDIO_EXTENSIONS == {"mp3", "wav", "m4a", "flac", "aac", "ogg", "webm"}

\* The members of S in descending order of full path.
SortPaths_Descending(S) ==
    CHOOSE q \in [1..Cardinality(S) -> S] :
        \A a, b \in 1..Cardinality(S) : a < b => Rank(q[a]) > Rank(q[b])

\* sorted(): the members of S in ascending order of full path.
RECURSIVE SortPaths(_)
SortPaths(S) ==
    IF S = {} THEN << >>
    ELSE LET m == CHOOSE p \in S : \A q \in S : Rank(p) <= Rank(q)
         IN  <<m>> \o SortPaths(S \ {m})

\* FileUtils.get_audio_files: entries with an audio extension, direct
\* children only unless recursive, sorted.
get_audio_files(tree, recursive) ==
    SortPaths({p \in tree : /\ Lower(p.ext) \in AUDIO_EXTENSIONS
                            /\ (recursive \/ p.dir = "")})

\* The transcript path of an audio file, relative to the output folder,
\* without its ".txt": mirrored under preserve_structure, else flattened.
OutputFile(p, preserve_structure) ==
    IF preserve_structure THEN [dir |-> p.dir, stem |-> p.stem]
    ELSE [dir |-> "", stem |-> p.stem]

OutPaths == {OutputFile(p, b) : p \in PathSet, b \in BOOLEAN}

\* ---------------------------------------------------------------- options
\* chars_per_line and timestamp_interval values: the defaults and invalid ones.
CharsPerLine == {-1, 0, 80}
Intervals == {-30, 0, 30}

OptionSpace ==
    [detect_date : BOOLEAN, chars_per_line : CharsPerLine,
     skip_existing : BOOLEAN, preserve_structure : BOOLEAN,
     recursive : BOOLEAN, create_summary : BOOLEAN,
     timestamps_enabled : BOOLEAN, timestamp_interval : Intervals]

\* ModelManager.get_active_model: the type of the loaded model, if any.
ModelTypes == {"none", "faster_whisper", "whisper"}

VARIABLES
    \* BatchProcessor fields
    cancel_requested, total_files, processed_files, successful_files,
    failed_files, processing_times,
    \* the process_batch frame: position, loop index, discovered files,
    \* result of _process_single_file
    pc, i, audio_files, success,
    \* the call's arguments and environment
    options, tree, outputs, model,
    \* what the run did (history): not the first call, files handed to the
    \* transcriber, per-file log line, files whose output existed when checked,
    \* loop left by break, file in flight at the first cancel() (0: the GUI
    \* worker had not yet called process_batch), summary, return
    rerun, transcribed, fate, existed, broke, cancelFile, summary, ret,
    \* the calls of the progress callback, as <<current, total, file>>, and
    \* whether the call found the cancellation flag set by an earlier cancel()
    progress, stale_cancel,
    \* a second thread inside get_statistics, and what it returned
    obs_pc, stats,
    \* insert_interval_timestamps frame
    ts_pc, segments, interval_seconds, format_type, result, current_interval,
    current_text, seg_idx,
    \* a transcribe_with_metadata call: position and what it returned or raised
    tr_pc, tr_result,
    \* the front end: which one runs, the position of its thread (the CLI's
    \* main thread, a GUI worker), the batch tab's buttons, the other tabs,
    \* the chosen folders, the callbacks handed to Tk's after(), and whether a
    \* worker was started while another was in flight
    frontend, fe_pc, start_btn, cancel_btn, tabs_frozen, input_folder,
    output_folder, after_queue, overlap,
    \* a call of one of the static utilities (DateParser, FormatUtils): which
    \* one and whether it returned, its arguments, and what it returned
    ut_pc, ut_arg, ut_ret

batchVars == <<cancel_requested, total_files, processed_files, successful_files,
               failed_files, processing_times, pc, i, audio_files, success,
               options, tree, outputs, model,
               rerun, transcribed, fate, existed, broke, cancelFile, summary, ret,
               progress, stale_cancel>>
obsVars == <<obs_pc, stats>>
tsVars == <<ts_pc, segments, interval_seconds, format_type, result,
            current_interval, current_text, seg_idx>>
trVars == <<tr_pc, tr_result>>
feVars == <<frontend, fe_pc, start_btn, cancel_btn, tabs_frozen, input_folder,
            output_folder, after_queue, overlap>>
utVars == <<ut_pc, ut_arg, ut_ret>>
vars == <<batchVars, obsVars, tsVars, trVars, feVars, utVars>>

\* ------------------------------------------------- outcomes of the callees
\* os.path.getsize (line 134): the size, or OSError (a dangling link that
\* os.walk listed, a file removed since discovery).
GetsizeOutcomes == {"ok", "raise"}

\* insert_interval_timestamps as Transcriber calls it (lines 157-162, 187-199)
\* with the timestamp_interval option: with an interval <= 0 it returns only
\* when no segment has text, and otherwise never does.
TimestampOutcomes(o) ==
    IF o.timestamp_interval <= 0 THEN {"ok", "hang"} ELSE {"ok"}

\* Transcriber.transcribe_with_metadata (lines 123-212) by loaded model type.
\* No model: RuntimeError.  The engine's transcribe may raise.  The whisper
\* branch without timestamps reads segment_list, which it never binds.
TranscribeOutcomes(m, o) ==
    CASE m = "none" -> {"nomodel"}
      [] m = "faster_whisper" ->
            {"raise"} \cup (IF o.timestamps_enabled THEN TimestampOutcomes(o)
                            ELSE {"ok"})
      [] m = "whisper" ->
            {"raise"} \cup (IF o.timestamps_enabled THEN TimestampOutcomes(o)
                            ELSE {})

\* Lines 155-159: the reflow is called for a positive width only; any
\* exception it raises is an outcome.
FormatCalled(o) == o.chars_per_line > 0
FormatOutcomes(o) == IF FormatCalled(o) THEN {"ok", "raise"} ELSE {"ok"}

\* Lines 164-165.
DateOutcomes(o) == IF o.detect_date THEN {"ok", "raise"} ELSE {"ok"}

\* Lines 172-210: open(output_file, 'w') fails, or a write fails after the
\* file was created or truncated, or the document is written.
WriteOutcomes == {"ok", "open", "write"}

\* Lines 233-244 of _create_summary.
SummaryOutcomes == {"written", "failed"}

\* A path of the output folder holds nothing, a transcript from before the
\* first run, or what a file of a run wrote: the whole document or a part.
\* fresh: written by the current (or, between calls, the last) run.
Absent == [kind |-> "absent", by |-> 0, fresh |-> FALSE]
Old == [kind |-> "old", by |-> 0, fresh |-> FALSE]
Written(p, kind) == [kind |-> kind, by |-> Rank(p), fresh |-> TRUE]

\* os.path.exists(output_file).
Exists(out) == outputs[out].kind # "absent"

\* The value process_batch returns; NoReturn while it has not.
NoReturn == [returned |-> FALSE, total |-> 0, successful |-> 0, failed |-> 0]

\* ------------------------------------------------------------ the code's tests
\* Line 64: if self.cancel_requested.
LoopCancelled_Never == FALSE
LoopCancelled == cancel_requested

\* Line 127: options.get('skip_existing') and os.path.exists(output_file).
SkipExisting_Never(out) == FALSE
SkipExisting(out) == options.skip_existing /\ Exists(out)

\* Line 87: options.get('create_summary') and not self.cancel_requested.
SummaryWanted_IgnoresCancel == options.create_summary
SummaryWanted == options.create_summary /\ ~cancel_requested

\* Lines 217-220: except Exception: log, return False.
ExceptResult_True == TRUE
ExceptResult == FALSE

\* Lines 248-250: except Exception in _create_summary.
SummaryCaught_Not == FALSE
SummaryCaught == TRUE

\* The audio file of the current iteration and its output path (118-124).
CurrentFile == audio_files[i + 1]
CurrentOutput == OutputFile(CurrentFile, options.preserve_structure)

\* The exception handler of _process_single_file: the failure is logged (here
\* by where it arose: reading the size, in the transcriber, or while the
\* document was formatted and written) and the method returns to line 79.
Caught(label) ==
    /\ success' = ExceptResult
    /\ fate' = Append(fate, label)
    /\ pc' = "l79"

\* ----------------------------------------------------------- process_batch
\* Line 48: the value the call gives the cancellation flag.
FlagAtEntry_Kept == cancel_requested
FlagAtEntry == FALSE

\* The call with its arguments, and line 48: the cancellation flag is cleared.
process_batch_enter(input, opts) ==
    /\ pc = "idle"
    /\ tree' = input
    /\ options' = opts
    /\ cancel_requested' = FlagAtEntry
    /\ pc' = "l49"
    /\ rerun' = (rerun \/ ret.returned)
    /\ outputs' = [out \in OutPaths |-> [outputs[out] EXCEPT !.fresh = FALSE]]
    /\ i' = 0
    /\ audio_files' = << >>
    /\ success' = FALSE
    /\ transcribed' = << >>
    /\ fate' = << >>
    /\ existed' = {}
    /\ broke' = FALSE
    \* history: a cancel the GUI worker received while it loaded the model
    \* stays on record for the call the worker makes
    /\ cancelFile' = IF fe_pc = "l274" /\ cancelFile = 0 THEN 0 ELSE -1
    /\ summary' = "none"
    /\ ret' = NoReturn
    /\ progress' = << >>
    /\ stale_cancel' = cancel_requested
    /\ UNCHANGED <<total_files, processed_files, successful_files, failed_files,
                   processing_times, model>>
    /\ UNCHANGED <<obsVars, utVars, tsVars, trVars>>

\* A call made directly on the processor.
process_batch_l48 ==
    /\ process_batch_enter(tree, options)
    /\ UNCHANGED feVars

process_batch_l49 ==
    /\ pc = "l49"
    /\ processed_files' = 0
    /\ pc' = "l50"
    /\ UNCHANGED <<cancel_requested, total_files, successful_files, failed_files,
                   processing_times, i, audio_files, success, options, tree,
                   outputs, model, rerun, transcribed, fate, existed, broke,
                   cancelFile, summary, ret>>
    /\ UNCHANGED <<progress, stale_cancel>>
    /\ UNCHANGED <<obsVars, utVars, tsVars, trVars, feVars>>

process_batch_l50 ==
    /\ pc = "l50"
    /\ successful_files' = 0
    /\ pc' = "l51"
    /\ UNCHANGED <<cancel_requested, total_files, processed_files, failed_files,
                   processing_times, i, audio_files, success, options, tree,
                   outputs, model, rerun, transcribed, fate, existed, broke,
                   cancelFile, summary, ret>>
    /\ UNCHANGED <<progress, stale_cancel>>
    /\ UNCHANGED <<obsVars, utVars, tsVars, trVars, feVars>>

process_batch_l51 ==
    /\ pc = "l51"
    /\ failed_files' = 0
    /\ pc' = "l52"
    /\ UNCHANGED <<cancel_requested, total_files, processed_files,
                   successful_files, processing_times, i, audio_files, success,
                   options, tree, outputs, model, rerun, transcribed, fate,
                   existed, broke, cancelFile, summary, ret>>
    /\ UNCHANGED <<progress, stale_cancel>>
    /\ UNCHANGED <<obsVars, utVars, tsVars, trVars, feVars>>

process_batch_l52 ==
    /\ pc = "l52"
    /\ processing_times' = << >>
    /\ pc' = "l56"
    /\ UNCHANGED <<cancel_requested, total_files, processed_files,
                   successful_files, failed_files, i, audio_files, success,
                   options, tree, outputs, model, rerun, transcribed, fate,
                   existed, broke, cancelFile, summary, ret>>
    /\ UNCHANGED <<progress, stale_cancel>>
    /\ UNCHANGED <<obsVars, utVars, tsVars, trVars, feVars>>

\* Lines 56-57: discovery, total_files.
process_batch_l56 ==
    /\ pc = "l56"
    /\ audio_files' = get_audio_files(tree, options.recursive)
    /\ total_files' = Len(audio_files')
    /\ pc' = "l63"
    /\ UNCHANGED <<cancel_requested, processed_files, successful_files,
                   failed_files, processing_times, i, success, options, tree,
                   outputs, model, rerun, transcribed, fate, existed, broke,
                   cancelFile, summary, ret>>
    /\ UNCHANGED <<progress, stale_cancel>>
    /\ UNCHANGED <<obsVars, utVars, tsVars, trVars, feVars>>

\* Lines 63-67: the next file of the enumeration, if any, and the
\* cancellation check.
process_batch_l63 ==
    /\ pc = "l63"
    /\ IF i >= Len(audio_files) THEN pc' = "l84" /\ broke' = broke
       ELSE IF LoopCancelled THEN pc' = "l84" /\ broke' = TRUE
       ELSE pc' = "l69" /\ broke' = broke
    /\ UNCHANGED <<cancel_requested, total_files, processed_files,
                   successful_files, failed_files, processing_times, i,
                   audio_files, success, options, tree, outputs, model, rerun,
                   transcribed, fate, existed, cancelFile, summary, ret>>
    /\ UNCHANGED <<progress, stale_cancel>>
    /\ UNCHANGED <<obsVars, utVars, tsVars, trVars, feVars>>

\* Line 69: self.processed_files = i + 1, the number of the file started.
Started_LoopIndex == i
Started == i + 1

process_batch_l69 ==
    /\ pc = "l69"
    /\ processed_files' = Started
    /\ pc' = "l127"
    /\ UNCHANGED <<cancel_requested, total_files, successful_files, failed_files,
                   processing_times, i, audio_files, success, options, tree,
                   outputs, model, rerun, transcribed, fate, existed, broke,
                   cancelFile, summary, ret>>
    /\ UNCHANGED <<progress, stale_cancel>>
    /\ UNCHANGED <<obsVars, utVars, tsVars, trVars, feVars>>

\* Line 72: progress_callback(self.processed_files, self.total_files,
\* audio_file), the file given by its number.
ProgressCall_LoopIndex == <<i, total_files, i + 1>>
ProgressCall == <<processed_files, total_files, i + 1>>

\* Lines 71-131: progress callback, _process_single_file up to the
\* skip-existing test.
process_single_file_l127 ==
    /\ pc = "l127"
    /\ existed' = IF Exists(CurrentOutput)
                  THEN existed \cup {i + 1} ELSE existed
    /\ IF SkipExisting(CurrentOutput)
       THEN /\ processing_times' = Append(processing_times, 0)
            /\ success' = TRUE
            /\ fate' = Append(fate, "skipped")
            /\ pc' = "l79"
       ELSE /\ pc' = "l134"
            /\ UNCHANGED <<processing_times, success, fate>>
    /\ UNCHANGED <<cancel_requested, total_files, processed_files,
                   successful_files, failed_files, i, audio_files, options, tree,
                   outputs, model, rerun, transcribed, broke, cancelFile, summary,
                   ret>>
    /\ progress' = Append(progress, ProgressCall)
    /\ UNCHANGED stale_cancel
    /\ UNCHANGED <<obsVars, utVars, tsVars, trVars, feVars>>

\* Line 134: os.path.getsize(audio_file).
process_single_file_l134 ==
    /\ pc = "l134"
    /\ \E r \in GetsizeOutcomes :
          IF r = "ok" THEN pc' = "l138" /\ UNCHANGED <<success, fate>>
          ELSE Caught("size")
    /\ UNCHANGED <<cancel_requested, total_files, processed_files,
                   successful_files, failed_files, processing_times, i,
                   audio_files, options, tree, outputs, model, rerun, transcribed,
                   existed, broke, cancelFile, summary, ret>>
    /\ UNCHANGED <<progress, stale_cancel>>
    /\ UNCHANGED <<obsVars, utVars, tsVars, trVars, feVars>>

\* Lines 137-138: ensure_directory, transcribe_with_metadata.
process_single_file_l138 ==
    /\ pc = "l138"
    /\ transcribed' = Append(transcribed, i + 1)
    /\ \E r \in TranscribeOutcomes(model, options) :
          CASE r = "ok" -> pc' = "l157" /\ UNCHANGED <<success, fate>>
            [] r = "hang" -> pc' = "hung" /\ UNCHANGED <<success, fate>>
            [] r = "nomodel" -> Caught("transcribe")
            [] r = "raise" -> Caught("transcribe")
    /\ UNCHANGED <<cancel_requested, total_files, processed_files,
                   successful_files, failed_files, processing_times, i,
                   audio_files, options, tree, outputs, model, rerun, existed,
                   broke, cancelFile, summary, ret>>
    /\ UNCHANGED <<progress, stale_cancel>>
    /\ UNCHANGED <<obsVars, utVars, tsVars, trVars, feVars>>

\* Lines 141-159: result extraction, reflow.
process_single_file_l157 ==
    /\ pc = "l157"
    /\ \E r \in FormatOutcomes(options) :
          IF r = "ok" THEN pc' = "l165" /\ UNCHANGED <<success, fate>>
          ELSE Caught("document")
    /\ UNCHANGED <<cancel_requested, total_files, processed_files,
                   successful_files, failed_files, processing_times, i,
                   audio_files, options, tree, outputs, model, rerun, transcribed,
                   existed, broke, cancelFile, summary, ret>>
    /\ UNCHANGED <<progress, stale_cancel>>
    /\ UNCHANGED <<obsVars, utVars, tsVars, trVars, feVars>>

\* Lines 162-165: date detection.
process_single_file_l165 ==
    /\ pc = "l165"
    /\ \E r \in DateOutcomes(options) :
          IF r = "ok" THEN pc' = "l169" /\ UNCHANGED <<success, fate>>
          ELSE Caught("document")
    /\ UNCHANGED <<cancel_requested, total_files, processed_files,
                   successful_files, failed_files, processing_times, i,
                   audio_files, options, tree, outputs, model, rerun, transcribed,
                   existed, broke, cancelFile, summary, ret>>
    /\ UNCHANGED <<progress, stale_cancel>>
    /\ UNCHANGED <<obsVars, utVars, tsVars, trVars, feVars>>

\* Lines 168-215: the processing time is recorded, then the document written.
process_single_file_l169 ==
    /\ pc = "l169"
    /\ processing_times' = Append(processing_times, 1)
    /\ \E r \in WriteOutcomes :
          CASE r = "ok" ->
                 /\ outputs' = [outputs EXCEPT ![CurrentOutput] =
                                   Written(CurrentFile, "full")]
                 /\ success' = TRUE
                 /\ fate' = Append(fate, "success")
                 /\ pc' = "l79"
            [] r = "open" -> Caught("document") /\ UNCHANGED outputs
            [] r = "write" ->
                 /\ outputs' = [outputs EXCEPT ![CurrentOutput] =
                                   Written(CurrentFile, "partial")]
                 /\ Caught("document")
    /\ UNCHANGED <<cancel_requested, total_files, processed_files,
                   successful_files, failed_files, i, audio_files, options, tree,
                   model, rerun, transcribed, existed, broke, cancelFile, summary,
                   ret>>
    /\ UNCHANGED <<progress, stale_cancel>>
    /\ UNCHANGED <<obsVars, utVars, tsVars, trVars, feVars>>

\* Lines 79-82, and the loop advances.
process_batch_l79 ==
    /\ pc = "l79"
    /\ IF success
       THEN successful_files' = successful_files + 1 /\ UNCHANGED failed_files
       ELSE failed_files' = failed_files + 1 /\ UNCHANGED successful_files
    /\ i' = i + 1
    /\ pc' = "l63"
    /\ UNCHANGED <<cancel_requested, total_files, processed_files,
                   processing_times, audio_files, success, options, tree,
                   outputs, model, rerun, transcribed, fate, existed, broke,
                   cancelFile, summary, ret>>
    /\ UNCHANGED <<progress, stale_cancel>>
    /\ UNCHANGED <<obsVars, utVars, tsVars, trVars, feVars>>

\* Lines 84-88 and _create_summary, whose handler (lines 248-250) logs a
\* failed write.
process_batch_l84 ==
    /\ pc = "l84"
    /\ IF SummaryWanted
       THEN \E r \in SummaryOutcomes :
               /\ summary' = r
               /\ pc' = IF r = "failed" /\ ~SummaryCaught THEN "raised" ELSE "l90"
       ELSE summary' = "none" /\ pc' = "l90"
    /\ UNCHANGED <<cancel_requested, total_files, processed_files,
                   successful_files, failed_files, processing_times, i,
                   audio_files, success, options, tree, outputs, model, rerun,
                   transcribed, fate, existed, broke, cancelFile, ret>>
    /\ UNCHANGED <<progress, stale_cancel>>
    /\ UNCHANGED <<obsVars, utVars, tsVars, trVars, feVars>>

\* Lines 90-95: the statistics are returned.
process_batch_l90 ==
    /\ pc = "l90"
    /\ ret' = [returned |-> TRUE, total |-> total_files,
               successful |-> successful_files, failed |-> failed_files]
    /\ pc' = "idle"
    /\ UNCHANGED <<cancel_requested, total_files, processed_files,
                   successful_files, failed_files, processing_times, i,
                   audio_files, success, options, tree, outputs, model, rerun,
                   transcribed, fate, existed, broke, cancelFile, summary>>
    /\ UNCHANGED <<progress, stale_cancel>>
    /\ UNCHANGED <<obsVars, utVars, tsVars, trVars, feVars>>

\* The steps of a process_batch call after its first.
ProcessBatchStep ==
    \/ process_batch_l49 \/ process_batch_l50 \/ process_batch_l51
    \/ process_batch_l52 \/ process_batch_l56 \/ process_batch_l63
    \/ process_batch_l69 \/ process_single_file_l127
    \/ process_single_file_l134 \/ process_single_file_l138
    \/ process_single_file_l157 \/ process_single_file_l165
    \/ process_single_file_l169 \/ process_batch_l79 \/ process_batch_l84
    \/ process_batch_l90

\* ------------------------------------------------------------------ cancel
\* The number of the last file whose iteration has passed the cancellation
\* check, at the current position of the loop.
PastCheck == IF pc \in {"l49", "l50", "l51", "l52", "l56", "l63", "l84", "l90",
                       "raised"}
             THEN i ELSE i + 1

\* BatchProcessor.cancel, from another thread.
cancel ==
    /\ ~cancel_requested
    /\ cancel_requested' = TRUE
    /\ cancelFile' = IF pc # "idle" THEN PastCheck ELSE cancelFile
    /\ UNCHANGED <<total_files, processed_files, successful_files, failed_files,
                   processing_times, pc, i, audio_files, success, options, tree,
                   outputs, model, rerun, transcribed, fate, existed, broke,
                   summary, ret>>
    /\ UNCHANGED <<progress, stale_cancel>>
    /\ UNCHANGED <<obsVars, utVars, tsVars, trVars, feVars>>

\* ---------------------------------------------------------- get_statistics
\* What get_statistics has read so far; the fields are read one by one
\* (lines 262-268) while process_batch runs on its own thread.  at: the four
\* fields at the moment of the first read.
Fields == [total |-> total_files, processed |-> processed_files,
           successful |-> successful_files, failed |-> failed_files]
Unread == [total |-> -1, processed |-> -1, successful |-> -1, failed |-> -1]
NoStats == [read |-> Unread, at |-> Unread]

get_statistics_l263 ==
    /\ obs_pc = "idle"
    /\ stats' = [read |-> [Unread EXCEPT !.total = total_files], at |-> Fields]
    /\ obs_pc' = "l264"
    /\ UNCHANGED <<batchVars, utVars, tsVars, trVars, feVars>>

get_statistics_l264 ==
    /\ obs_pc = "l264"
    /\ stats' = [stats EXCEPT !.read.processed = processed_files]
    /\ obs_pc' = "l265"
    /\ UNCHANGED <<batchVars, utVars, tsVars, trVars, feVars>>

get_statistics_l265 ==
    /\ obs_pc = "l265"
    /\ stats' = [stats EXCEPT !.read.successful = successful_files]
    /\ obs_pc' = "l266"
    /\ UNCHANGED <<batchVars, utVars, tsVars, trVars, feVars>>

\* The last field is read and the dictionary returned.
get_statistics_l266 ==
    /\ obs_pc = "l266"
    /\ stats' = [stats EXCEPT !.read.failed = failed_files]
    /\ obs_pc' = "idle"
    /\ UNCHANGED <<batchVars, utVars, tsVars, trVars, feVars>>

GetStatisticsStep ==
    \/ get_statistics_l263 \/ get_statistics_l264
    \/ get_statistics_l265 \/ get_statistics_l266

\* ------------------------------------------------------- the specifications
\* A BatchProcessor after __init__ (lines 20-30), before any call.
InitProcessor ==
    /\ cancel_requested = FALSE
    /\ total_files = 0
    /\ processed_files = 0
    /\ successful_files = 0
    /\ failed_files = 0
    /\ processing_times = << >>
    /\ pc = "idle"
    /\ i = 0
    /\ audio_files = << >>
    /\ success = FALSE
    /\ rerun = FALSE
    /\ transcribed = << >>
    /\ fate = << >>
    /\ existed = {}
    /\ broke = FALSE
    /\ cancelFile = -1
    /\ summary = "none"
    /\ ret = NoReturn
    /\ obs_pc = "idle"
    /\ stats = NoStats
    /\ progress = << >>
    /\ stale_cancel = FALSE

\* No insert_interval_timestamps call is followed.
InitNoTimestamps ==
    /\ ts_pc = "off"
    /\ segments = << >>
    /\ interval_seconds = 0
    /\ format_type = "HH:MM:SS"
    /\ result = << >>
    /\ current_interval = 0
    /\ current_text = << >>
    /\ seg_idx = 0

\* No transcribe_with_metadata call is followed on its own.
NoResult == [raised |-> "", text |-> << >>]

InitNoTranscribe ==
    /\ tr_pc = "off"
    /\ tr_result = NoResult

\* No utility is called on its own.
InitNoUtility ==
    /\ ut_pc = "off"
    /\ ut_arg = << >>
    /\ ut_ret = << >>

\* The processor is driven directly: no front end.
NoFolder == [chosen |-> FALSE, tree |-> {}]

InitNoFrontend ==
    /\ frontend = "none"
    /\ fe_pc = "none"
    /\ start_btn = "disabled"
    /\ cancel_btn = "disabled"
    /\ tabs_frozen = FALSE
    /\ input_folder = NoFolder
    /\ output_folder = FALSE
    /\ after_queue = << >>
    /\ overlap = FALSE

\* Input trees of at most MaxFiles entries.
Trees == {t \in SUBSET PathSet : Cardinality(t) <= MaxFiles}

\* The trees all of whose entries the discovery returns (an entry it ignores
\* changes nothing in the run).
DiscoveredTrees(o) ==
    {t \in Trees : Len(get_audio_files(t, o.recursive)) = Cardinality(t)}

\* Output folders that hold transcripts already, at paths the run will look
\* at (the other paths are never read or written).
OutputFolders(t, o) ==
    {f \in [OutPaths -> {Absent, Old}] :
        \A out \in OutPaths :
            f[out] = Old =>
                \E k \in DOMAIN get_audio_files(t, o.recursive) :
                    OutputFile(get_audio_files(t, o.recursive)[k],
                               o.preserve_structure) = out}

\* The options of the batch tab's defaults (batch_tab.py lines 27-32, 261-271)
\* with every choice of the flags that steer the loop (without recursion
\* every discovered file is a direct child, and preserve_structure changes
\* no path).
LoopOptions ==
    {o \in OptionSpace : /\ o.detect_date
                         /\ o.chars_per_line = 80
                         /\ ~o.timestamps_enabled
                         /\ o.timestamp_interval = 30
                         /\ (o.preserve_structure => o.recursive)}

Init ==
    /\ InitNoUtility
    /\ InitProcessor
    /\ InitNoTimestamps
    /\ InitNoTranscribe
    /\ InitNoFrontend
    /\ options \in LoopOptions
    /\ tree \in DiscoveredTrees(options)
    /\ outputs \in OutputFolders(tree, options)
    /\ model \in ModelTypes

Next ==
    \/ process_batch_l48 \/ process_batch_l49 \/ process_batch_l50
    \/ process_batch_l51 \/ process_batch_l52 \/ process_batch_l56
    \/ process_batch_l63 \/ process_batch_l69 \/ process_single_file_l127
    \/ process_single_file_l134 \/ process_single_file_l138
    \/ process_single_file_l157 \/ process_single_file_l165
    \/ process_single_file_l169 \/ process_batch_l79 \/ process_batch_l84
    \/ process_batch_l90 \/ cancel

Spec == Init /\ [][Next]_vars

\* The weak fairness of the thread that runs process_batch: a call that can
\* take its next step takes it.
\* The runs are those over the direct children of the input folder.
InitFair == Init /\ ~options.recursive

FairSpec == InitFair /\ [][Next]_vars /\ WF_vars(ProcessBatchStep)

\* ----- get_statistics from a second thread
\* The batch tab's default options (batch_tab.py lines 27-32).
DefaultOptions ==
    [detect_date |-> TRUE, chars_per_line |-> 80, skip_existing |-> TRUE,
     preserve_structure |-> FALSE, recursive |-> FALSE, create_summary |-> TRUE,
     timestamps_enabled |-> FALSE, timestamp_interval |-> 30]

InitObs ==
    /\ InitNoUtility
    /\ InitProcessor
    /\ InitNoTimestamps
    /\ InitNoTranscribe
    /\ InitNoFrontend
    /\ options = DefaultOptions
    /\ tree \in DiscoveredTrees(options)
    /\ outputs = [out \in OutPaths |-> Absent]
    /\ model \in {"none", "faster_whisper"}

NextObs ==
    \/ Next
    \/ get_statistics_l263 \/ get_statistics_l264
    \/ get_statistics_l265 \/ get_statistics_l266

SpecObs == InitObs /\ [][NextObs]_vars

\* ----- every value of the formatting and timestamp options
FormatOptions ==
    {o \in OptionSpace : /\ o.detect_date = DefaultOptions.detect_date
                         /\ o.skip_existing = DefaultOptions.skip_existing
                         /\ o.preserve_structure = DefaultOptions.preserve_structure
                         /\ o.recursive = DefaultOptions.recursive
                         /\ o.create_summary = DefaultOptions.create_summary}

InitOpts ==
    /\ InitNoUtility
    /\ InitProcessor
    /\ InitNoTimestamps
    /\ InitNoTranscribe
    /\ InitNoFrontend
    /\ options \in FormatOptions
    /\ tree \in DiscoveredTrees(options)
    /\ outputs \in OutputFolders(tree, options)
    /\ model \in ModelTypes

SpecOpts == InitOpts /\ [][Next]_vars

\* ----------------------------------------------- insert_interval_timestamps
SECONDS_PER_MINUTE == 60
SECONDS_PER_HOUR == 3600

\* Python's {:02d}: at least two digits, the sign kept.
Pad2(n) == IF n >= 0 /\ n < 10 THEN "0" \o ToString(n) ELSE ToString(n)

\* The minutes of the MM:SS style wrapped at the hour.
format_timestamp_MinutesWrapped(seconds, style) ==
    "[" \o Pad2((seconds % SECONDS_PER_HOUR) \div SECONDS_PER_MINUTE) \o ":"
        \o Pad2(seconds % SECONDS_PER_MINUTE) \o "]"

\* FormatUtils.format_timestamp for whole seconds (so the milliseconds of the
\* timecode style are 000).
format_timestamp(seconds, style) ==
    LET hours == seconds \div SECONDS_PER_HOUR
        minutes == (seconds % SECONDS_PER_HOUR) \div SECONDS_PER_MINUTE
        secs == seconds % SECONDS_PER_MINUTE
        hms == Pad2(hours) \o ":" \o Pad2(minutes) \o ":" \o Pad2(secs)
    IN  CASE style = "HH:MM:SS" -> "[" \o hms \o "]"
          [] style = "MM:SS" ->
                "[" \o Pad2(seconds \div SECONDS_PER_MINUTE) \o ":" \o Pad2(secs) \o "]"
          [] style = "timecode" -> "[" \o hms \o ".000]"
          [] OTHER -> "[" \o hms \o "]"

\* The segment texts the engine may produce, and str.strip() on them.
SegmentTexts == {" ", "a", " b "}
Strip_Nothing(t) == t
Strip(t) == CASE t = " " -> ""
              [] t = " b " -> "b"
              [] OTHER -> t

\* sep.join(parts).
RECURSIVE Join(_, _)
Join(parts, sep) ==
    IF parts = << >> THEN ""
    ELSE IF Len(parts) = 1 THEN parts[1]
    ELSE parts[1] \o sep \o Join(Tail(parts), sep)

\* The lines a call is followed for: more than any call with a positive
\* interval emits (a marker per second of the last start, a block per segment).
LineCap == MaxStart + MaxSegs + 2

CurrentSegment == segments[seg_idx]

\* Lines 144-145: the lines before the loop.
InitialLines_None == << >>
InitialLines == <<format_timestamp(0, format_type)>>

\* Line 166: while current_interval <= segment_start.
MarkerDue_Strict == current_interval < CurrentSegment.start
MarkerDue == current_interval <= CurrentSegment.start

\* Lines 140-148: empty input returns ""; else the marker for 0.
insert_interval_timestamps_l140 ==
    /\ ts_pc = "l140"
    /\ IF segments = << >>
       THEN /\ ts_pc' = "done"
            /\ UNCHANGED <<result, current_interval, current_text, seg_idx>>
       ELSE /\ result' = InitialLines
            /\ current_interval' = interval_seconds
            /\ current_text' = << >>
            /\ seg_idx' = 1
            /\ ts_pc' = "l150"
    /\ UNCHANGED <<segments, interval_seconds, format_type>>
    /\ UNCHANGED <<batchVars, obsVars, utVars, trVars, feVars>>

\* Lines 150-156: the next segment, skipped when its stripped text is empty.
insert_interval_timestamps_l150 ==
    /\ ts_pc = "l150"
    /\ IF seg_idx > Len(segments)
       THEN ts_pc' = "l174" /\ UNCHANGED seg_idx
       ELSE IF Strip(CurrentSegment.text) = ""
       THEN ts_pc' = "l150" /\ seg_idx' = seg_idx + 1
       ELSE ts_pc' = "l159" /\ UNCHANGED seg_idx
    /\ UNCHANGED <<segments, interval_seconds, format_type, result,
                   current_interval, current_text>>
    /\ UNCHANGED <<batchVars, obsVars, utVars, trVars, feVars>>

\* Lines 159-163: a segment at or past the threshold flushes the buffer.
insert_interval_timestamps_l159 ==
    /\ ts_pc = "l159"
    /\ IF CurrentSegment.start >= current_interval
       THEN /\ IF current_text # << >>
               THEN /\ result' = Append(result, Join(current_text, " "))
                    /\ current_text' = << >>
               ELSE UNCHANGED <<result, current_text>>
            /\ ts_pc' = "l166"
       ELSE /\ ts_pc' = "l171"
            /\ UNCHANGED <<result, current_text>>
    /\ UNCHANGED <<segments, interval_seconds, format_type, current_interval,
                   seg_idx>>
    /\ UNCHANGED <<batchVars, obsVars, utVars, trVars, feVars>>

\* Lines 166-168: one test of the while loop, and its body.
insert_interval_timestamps_l166 ==
    /\ ts_pc = "l166"
    /\ IF MarkerDue
       THEN /\ Len(result) < LineCap
            /\ result' = Append(result,
                                format_timestamp(current_interval, format_type))
            /\ current_interval' = current_interval + interval_seconds
            /\ ts_pc' = "l166"
       ELSE /\ ts_pc' = "l171"
            /\ UNCHANGED <<result, current_interval>>
    /\ UNCHANGED <<segments, interval_seconds, format_type, current_text,
                   seg_idx>>
    /\ UNCHANGED <<batchVars, obsVars, utVars, trVars, feVars>>

\* Line 171, and the loop advances.
insert_interval_timestamps_l171 ==
    /\ ts_pc = "l171"
    /\ current_text' = Append(current_text, Strip(CurrentSegment.text))
    /\ seg_idx' = seg_idx + 1
    /\ ts_pc' = "l150"
    /\ UNCHANGED <<segments, interval_seconds, format_type, result,
                   current_interval>>
    /\ UNCHANGED <<batchVars, obsVars, utVars, trVars, feVars>>

\* Lines 174-175: the text gathered since the last marker, as one line.
RemainingText_Dropped == << >>
RemainingText ==
    IF current_text # << >> THEN <<Join(current_text, " ")>> ELSE << >>

\* Lines 174-178: the remaining text; the lines are joined and returned.
insert_interval_timestamps_l174 ==
    /\ ts_pc = "l174"
    /\ result' = result \o RemainingText
    /\ ts_pc' = "done"
    /\ UNCHANGED <<segments, interval_seconds, format_type, current_interval,
                   current_text, seg_idx>>
    /\ UNCHANGED <<batchVars, obsVars, utVars, trVars, feVars>>

\* The string the call returned.
Returned_text == Join(result, "\n")

\* Calls with at most MaxSegs segments starting within MaxStart seconds, every
\* style, and intervals that are invalid, short, and longer than the audio.
SegmentSpace == [start : 0..MaxStart, text : SegmentTexts]
SegmentSeqs == UNION {[1..n -> SegmentSpace] : n \in 0..MaxSegs}
TsIntervals == {-1, 0, 1, 2, MaxStart + 1}
TsStyles == {"HH:MM:SS", "MM:SS", "timecode", "plain"}

InitTS ==
    /\ InitNoUtility
    /\ InitProcessor
    /\ InitNoTranscribe
    /\ InitNoFrontend
    /\ options = DefaultOptions
    /\ tree = {}
    /\ outputs = [out \in OutPaths |-> Absent]
    /\ model = "none"
    /\ ts_pc = "l140"
    /\ segments \in SegmentSeqs
    /\ interval_seconds \in TsIntervals
    /\ format_type \in TsStyles
    /\ result = << >>
    /\ current_interval = 0
    /\ current_text = << >>
    /\ seg_idx = 0

NextTS ==
    \/ insert_interval_timestamps_l140 \/ insert_interval_timestamps_l150
    \/ insert_interval_timestamps_l159 \/ insert_interval_timestamps_l166
    \/ insert_interval_timestamps_l171 \/ insert_interval_timestamps_l174

SpecTS == InitTS /\ [][NextTS]_vars

\* ------------------------------------------------ transcribe_with_metadata
\* The characters of the segment texts.
Chars(t) == CASE t = " " -> <<" ">>
              [] t = " b " -> <<" ", "b", " ">>
              [] OTHER -> <<t>>

\* str.strip() on a sequence of characters.
RECURSIVE StripChars(_)
StripChars(cs) ==
    IF cs = << >> THEN cs
    ELSE IF Head(cs) = " " THEN StripChars(Tail(cs))
    ELSE IF cs[Len(cs)] = " " THEN StripChars(SubSeq(cs, 1, Len(cs) - 1))
    ELSE cs

\* sep.join(parts) on sequences of characters.
RECURSIVE JoinChars(_, _)
JoinChars(parts, sep) ==
    IF parts = << >> THEN << >>
    ELSE IF Len(parts) = 1 THEN parts[1]
    ELSE parts[1] \o sep \o JoinChars(Tail(parts), sep)

\* Lines 165-170: text = ""; text += seg['text'] + " " for every segment;
\* text.strip().
ConcatenatedText(segs) ==
    StripChars(JoinChars([k \in DOMAIN segs |-> Chars(segs[k].text) \o <<" ">>],
                         << >>))

\* Lines 112-210 up to the text of the result: no model raises RuntimeError
\* (123-130); the engine's segments are collected; with timestamps enabled
\* insert_interval_timestamps is called; without them the faster_whisper
\* branch concatenates (165-170) and the whisper branch reads segment_list
\* (line 202), a local it binds only under the test of line 187.
transcribe_with_metadata_l123 ==
    /\ tr_pc = "l123"
    /\ IF model = "none"
       THEN /\ tr_result' = [raised |-> "RuntimeError", text |-> << >>]
            /\ tr_pc' = "done"
            /\ UNCHANGED tsVars
       ELSE IF options.timestamps_enabled
       THEN /\ ts_pc' = "l140"
            /\ interval_seconds' = options.timestamp_interval
            /\ tr_pc' = "in_timestamps"
            /\ UNCHANGED <<tr_result, segments, format_type, result,
                           current_interval, current_text, seg_idx>>
       ELSE /\ tr_result' =
                 IF model = "faster_whisper"
                 THEN [raised |-> "", text |-> ConcatenatedText(segments)]
                 ELSE [raised |-> "UnboundLocalError", text |-> << >>]
            /\ tr_pc' = "done"
            /\ UNCHANGED tsVars
    /\ UNCHANGED <<batchVars, obsVars, utVars, feVars>>

\* Lines 157-176, 194-210: insert_interval_timestamps returned its lines,
\* which are the text of the result.
transcribe_with_metadata_l164 ==
    /\ tr_pc = "in_timestamps"
    /\ ts_pc = "done"
    /\ tr_result' = [raised |-> "", text |-> result]
    /\ tr_pc' = "done"
    /\ UNCHANGED <<batchVars, obsVars, utVars, tsVars, feVars>>

\* A call for every model state, every setting of the timestamp options, and
\* the segments the engine produced.
InitTr ==
    /\ InitNoUtility
    /\ InitProcessor
    /\ InitNoFrontend
    /\ options \in FormatOptions
    /\ options.chars_per_line = DefaultOptions.chars_per_line
    /\ tree = {}
    /\ outputs = [out \in OutPaths |-> Absent]
    /\ model \in ModelTypes
    /\ tr_pc = "l123"
    /\ tr_result = NoResult
    /\ ts_pc = "off"
    /\ segments \in SegmentSeqs
    /\ interval_seconds = 0
    /\ format_type = "HH:MM:SS"
    /\ result = << >>
    /\ current_interval = 0
    /\ current_text = << >>
    /\ seg_idx = 0

NextTr ==
    \/ transcribe_with_metadata_l123 \/ transcribe_with_metadata_l164
    \/ NextTS

SpecTr == InitTr /\ [][NextTr]_vars

\* -------------------------------------------------------------- front ends
\* ModelManager.load_model (model_manager.py lines 26-53): the engine's
\* constructor loads a model of one of the two types, or raises.
LoadOutcomes == {"faster_whisper", "whisper", "raise"}

\* get_active_model after a load of type m on a manager whose active model
\* was cur (lines 131-141 prefer the faster_whisper model).
ActiveAfterLoad(cur, m) == IF cur = "faster_whisper" THEN cur ELSE m

\* The options the single-file front ends pass (timestamp settings only;
\* the other keys are read by no code on that path).
SingleOptions ==
    {o \in OptionSpace : /\ o.timestamp_interval = 30
                         /\ o.detect_date = DefaultOptions.detect_date
                         /\ o.chars_per_line = DefaultOptions.chars_per_line
                         /\ o.skip_existing = DefaultOptions.skip_existing
                         /\ o.preserve_structure = DefaultOptions.preserve_structure
                         /\ o.recursive = DefaultOptions.recursive
                         /\ o.create_summary = DefaultOptions.create_summary}

\* The folders a user points a front end at: an empty one, and one with
\* MaxFiles audio files as direct children (the first ones in path order).
AudioChildren == get_audio_files(PathSet, DefaultOptions.recursive)
Folders ==
    {{}, {AudioChildren[k] : k \in 1..MaxFiles} \cap PathSet}

\* A front-end step: the processor and the other machines are left alone.
FrontOnly == UNCHANGED <<batchVars, obsVars, utVars, tsVars, trVars>>

\* What a front-end step that touches only the model manager leaves alone.
ProcessorUnchanged ==
    UNCHANGED <<cancel_requested, total_files, processed_files, successful_files,
                failed_files, processing_times, pc, i, audio_files, success,
                options, tree, outputs, rerun, transcribed, fate, existed, broke,
                cancelFile, summary, ret, progress, stale_cancel>>

GuiUnchanged ==
    UNCHANGED <<start_btn, cancel_btn, tabs_frozen, input_folder, output_folder,
                after_queue, overlap>>

\* ----- audio_transcribe_cli.py, transcribe_single_file
\* Line 48: load_model; an exception ends the command.
transcribe_single_file_l48 ==
    /\ frontend = "cli_single" /\ fe_pc = "l48"
    /\ \E m \in LoadOutcomes :
          IF m = "raise" THEN fe_pc' = "crashed" /\ UNCHANGED model
          ELSE fe_pc' = "l61" /\ model' = ActiveAfterLoad(model, m)
    /\ ProcessorUnchanged /\ GuiUnchanged /\ UNCHANGED frontend
    /\ UNCHANGED <<obsVars, utVars, tsVars, trVars>>

\* Line 61: transcribe_with_metadata; an exception ends the command.
transcribe_single_file_l61 ==
    /\ frontend = "cli_single" /\ fe_pc = "l61"
    /\ \E r \in TranscribeOutcomes(model, options) :
          fe_pc' = CASE r = "ok" -> "l146"
                     [] r = "hang" -> "hung"
                     [] OTHER -> "crashed"
    /\ FrontOnly /\ GuiUnchanged /\ UNCHANGED frontend

\* Lines 63-147: the transcript is written, cleanup_model, return 0.
transcribe_single_file_l146 ==
    /\ frontend = "cli_single" /\ fe_pc = "l146"
    /\ model' = "none"
    /\ fe_pc' = "done"
    /\ ProcessorUnchanged /\ GuiUnchanged /\ UNCHANGED frontend
    /\ UNCHANGED <<obsVars, utVars, tsVars, trVars>>

\* ----- audio_transcribe_cli.py, transcribe_batch
\* Lines 155-208: the checks of the input path, the options, the call.
transcribe_batch_l202 ==
    /\ frontend = "cli_batch" /\ fe_pc = "l202"
    /\ process_batch_enter(input_folder.tree, options)
    /\ fe_pc' = "in_call"
    /\ GuiUnchanged /\ UNCHANGED frontend

\* Lines 210-221: the results are printed, the exit status returned.
transcribe_batch_l210 ==
    /\ frontend = "cli_batch" /\ fe_pc = "in_call"
    /\ pc = "idle" /\ ret.returned
    /\ fe_pc' = "done"
    /\ FrontOnly /\ GuiUnchanged /\ UNCHANGED frontend

\* ----- single_file_tab.py, _transcribe_worker
\* Lines 229-235: load_model; the handler of line 329 reports an exception.
transcribe_worker_l231 ==
    /\ frontend = "gui_single" /\ fe_pc = "l231"
    /\ \E m \in LoadOutcomes :
          IF m = "raise" THEN fe_pc' = "l334" /\ UNCHANGED model
          ELSE fe_pc' = "l248" /\ model' = ActiveAfterLoad(model, m)
    /\ ProcessorUnchanged /\ GuiUnchanged /\ UNCHANGED frontend
    /\ UNCHANGED <<obsVars, utVars, tsVars, trVars>>

\* Lines 248-327: transcribe_with_metadata, the document.
transcribe_worker_l248 ==
    /\ frontend = "gui_single" /\ fe_pc = "l248"
    /\ \E r \in TranscribeOutcomes(model, options) :
          fe_pc' = IF r = "hang" THEN "hung" ELSE "l334"
    /\ FrontOnly /\ GuiUnchanged /\ UNCHANGED frontend

\* Lines 333-338: finally: cleanup_model, the widgets are reset through after.
transcribe_worker_l334 ==
    /\ frontend = "gui_single" /\ fe_pc = "l334"
    /\ model' = "none"
    /\ fe_pc' = "none"
    /\ after_queue' = after_queue \o <<"unfreeze_all_tabs">>
    /\ ProcessorUnchanged /\ UNCHANGED frontend
    /\ UNCHANGED <<start_btn, cancel_btn, tabs_frozen, input_folder,
                   output_folder, overlap>>
    /\ UNCHANGED <<obsVars, utVars, tsVars, trVars>>

\* ----- batch_tab.py
\* check_ready (lines 212-224): the state it gives the Start button.
check_ready(input, output) ==
    IF input.chosen /\ output
    THEN IF Len(get_audio_files(input.tree, DefaultOptions.recursive)) > 0
         THEN "normal" ELSE "disabled"
    ELSE "disabled"

\* select_input (lines 191-200), for a folder chosen in the dialog.
select_input ==
    /\ frontend = "gui_batch"
    /\ \E folder \in Folders :
          /\ input_folder' = [chosen |-> TRUE, tree |-> folder]
          /\ start_btn' = check_ready(input_folder', output_folder)
    /\ UNCHANGED <<frontend, fe_pc, cancel_btn, tabs_frozen, output_folder,
                   after_queue, overlap>>
    /\ FrontOnly

\* select_output (lines 202-210).
select_output ==
    /\ frontend = "gui_batch"
    /\ output_folder' = TRUE
    /\ start_btn' = check_ready(input_folder, output_folder')
    /\ UNCHANGED <<frontend, fe_pc, cancel_btn, tabs_frozen, input_folder,
                   after_queue, overlap>>
    /\ FrontOnly

\* Callbacks handed to after() and not yet run, at most.
MaxAfter == 2

\* start_batch (lines 226-248), the confirmation answered yes: a click on
\* the enabled Start button.  A worker thread started while another is in
\* flight is recorded and not followed.
start_batch ==
    /\ frontend = "gui_batch"
    /\ start_btn = "normal"
    /\ ~overlap
    /\ Len(after_queue) < MaxAfter
    /\ start_btn' = "disabled"
    /\ cancel_btn' = "normal"
    /\ tabs_frozen' = TRUE
    /\ IF fe_pc = "none" THEN fe_pc' = "l254" /\ UNCHANGED overlap
       ELSE overlap' = TRUE /\ UNCHANGED fe_pc
    /\ UNCHANGED <<frontend, input_folder, output_folder, after_queue>>
    /\ FrontOnly

\* cancel_batch (lines 321-325), the confirmation answered yes.
cancel_batch ==
    /\ frontend = "gui_batch"
    /\ cancel_btn = "normal"
    /\ cancel_requested' = TRUE
    /\ cancelFile' = IF cancelFile # -1 THEN cancelFile
                     ELSE IF pc # "idle" THEN PastCheck
                     ELSE IF fe_pc \in {"l254", "l274"} THEN 0
                     ELSE cancelFile
    /\ cancel_btn' = "disabled"
    /\ UNCHANGED <<total_files, processed_files, successful_files, failed_files,
                   processing_times, pc, i, audio_files, success, options, tree,
                   outputs, model, rerun, transcribed, fate, existed, broke,
                   summary, ret, progress, stale_cancel>>
    /\ UNCHANGED <<frontend, fe_pc, start_btn, tabs_frozen, input_folder,
                   output_folder, after_queue, overlap>>
    /\ UNCHANGED <<obsVars, utVars, tsVars, trVars>>

\* Lines 295-298: where the worker goes once the except clause has logged
\* the exception: into the finally clause.
AfterExcept_ThreadEnds == "none"
AfterExcept == "l299"

\* _batch_worker, lines 252-258: load_model; the handler of line 295 logs
\* an exception.
batch_worker_l254 ==
    /\ frontend = "gui_batch" /\ fe_pc = "l254"
    /\ \E m \in LoadOutcomes :
          IF m = "raise" THEN fe_pc' = AfterExcept /\ UNCHANGED model
          ELSE fe_pc' = "l274" /\ model' = ActiveAfterLoad(model, m)
    /\ ProcessorUnchanged /\ GuiUnchanged /\ UNCHANGED frontend
    /\ UNCHANGED <<obsVars, utVars, tsVars, trVars>>

\* Lines 261-280: the options of the tab's variables, the call.
batch_worker_l274 ==
    /\ frontend = "gui_batch" /\ fe_pc = "l274"
    /\ process_batch_enter(input_folder.tree, DefaultOptions)
    /\ fe_pc' = "in_call"
    /\ GuiUnchanged /\ UNCHANGED frontend

\* Lines 282-297: the call returned and the results are logged, or it
\* raised and the handler logs that.
batch_worker_l282 ==
    /\ frontend = "gui_batch" /\ fe_pc = "in_call"
    /\ \/ pc = "idle" /\ ret.returned
       \/ pc = "raised"
    /\ pc' = "idle"
    /\ fe_pc' = "l299"
    /\ UNCHANGED <<cancel_requested, total_files, processed_files,
                   successful_files, failed_files, processing_times, i,
                   audio_files, success, options, tree, outputs, model, rerun,
                   transcribed, fate, existed, broke, cancelFile, summary, ret,
                   progress, stale_cancel>>
    /\ GuiUnchanged /\ UNCHANGED frontend
    /\ UNCHANGED <<obsVars, utVars, tsVars, trVars>>

\* Lines 298-301: finally: cleanup_model, and the reset handed to after.
batch_worker_l299 ==
    /\ frontend = "gui_batch" /\ fe_pc = "l299"
    /\ model' = "none"
    /\ after_queue' = after_queue \o <<"_reset_ui", "unfreeze_all_tabs">>
    /\ fe_pc' = "none"
    \* history: the worker a cancel was meant for is gone
    /\ cancelFile' = -1
    /\ UNCHANGED <<cancel_requested, total_files, processed_files,
                   successful_files, failed_files, processing_times, pc, i,
                   audio_files, success, options, tree, outputs, rerun,
                   transcribed, fate, existed, broke, summary, ret, progress,
                   stale_cancel>>
    /\ UNCHANGED frontend
    /\ UNCHANGED <<start_btn, cancel_btn, tabs_frozen, input_folder,
                   output_folder, overlap>>
    /\ UNCHANGED <<obsVars, utVars, tsVars, trVars>>

\* Tk runs the oldest callback handed to after(): _reset_ui (lines 327-332)
\* or unfreeze_all_tabs (main_window.py lines 83-86).
tk_after ==
    /\ after_queue # << >>
    /\ after_queue' = Tail(after_queue)
    /\ IF Head(after_queue) = "_reset_ui"
       THEN /\ start_btn' = "normal"
            /\ cancel_btn' = "disabled"
            /\ UNCHANGED tabs_frozen
       ELSE /\ tabs_frozen' = FALSE
            /\ UNCHANGED <<start_btn, cancel_btn>>
    /\ UNCHANGED <<frontend, fe_pc, input_folder, output_folder, overlap>>
    /\ FrontOnly

\* The steps of process_batch while a front end is inside its call.
process_batch_in_call ==
    /\ fe_pc = "in_call"
    /\ ProcessBatchStep

\* A front end at its entry: the CLI commands with their input folder, the
\* single-file worker just started, the batch tab just opened.
InitFront ==
    /\ InitNoUtility
    /\ InitProcessor
    /\ InitNoTimestamps
    /\ InitNoTranscribe
    /\ frontend \in {"cli_single", "cli_batch", "gui_single", "gui_batch"}
    /\ fe_pc = CASE frontend = "cli_single" -> "l48"
                 [] frontend = "cli_batch" -> "l202"
                 [] frontend = "gui_single" -> "l231"
                 [] OTHER -> "none"
    /\ start_btn = "disabled"
    /\ cancel_btn = "disabled"
    /\ tabs_frozen = (frontend = "gui_single")
    /\ input_folder \in IF frontend = "cli_batch"
                        THEN {[chosen |-> TRUE, tree |-> t] : t \in Folders}
                        ELSE {NoFolder}
    /\ output_folder = (frontend = "cli_batch")
    /\ after_queue = << >>
    /\ overlap = FALSE
    /\ options \in IF frontend \in {"cli_single", "gui_single"}
                   THEN SingleOptions ELSE {DefaultOptions}
    /\ tree = {}
    /\ outputs = [out \in OutPaths |-> Absent]
    /\ model = "none"

NextFront ==
    \/ transcribe_single_file_l48 \/ transcribe_single_file_l61
    \/ transcribe_single_file_l146
    \/ transcribe_batch_l202 \/ transcribe_batch_l210
    \/ transcribe_worker_l231 \/ transcribe_worker_l248
    \/ transcribe_worker_l334
    \/ select_input \/ select_output \/ start_batch \/ cancel_batch
    \/ batch_worker_l254 \/ batch_worker_l274 \/ batch_worker_l282
    \/ batch_worker_l299 \/ tk_after
    \/ process_batch_in_call

SpecFront == InitFront /\ [][NextFront]_vars

\* The batch tab once a folder with audio files and an output folder are
\* chosen and check_ready has enabled Start, with its worker thread
\* scheduled: a started thread runs, and every call it makes returns or
\* raises.
InitGui ==
    /\ InitNoUtility
    /\ InitProcessor
    /\ InitNoTimestamps
    /\ InitNoTranscribe
    /\ frontend = "gui_batch"
    /\ fe_pc = "none"
    /\ input_folder \in {[chosen |-> TRUE, tree |-> t] : t \in Folders}
    /\ output_folder = TRUE
    /\ start_btn = check_ready(input_folder, output_folder)
    /\ start_btn = "normal"
    /\ cancel_btn = "disabled"
    /\ tabs_frozen = FALSE
    /\ after_queue = << >>
    /\ overlap = FALSE
    /\ options = DefaultOptions
    /\ tree = {}
    /\ outputs = [out \in OutPaths |-> Absent]
    /\ model = "none"

NextGui ==
    \/ start_batch \/ cancel_batch
    \/ batch_worker_l254 \/ batch_worker_l274 \/ batch_worker_l282
    \/ batch_worker_l299 \/ tk_after
    \/ process_batch_in_call

FairSpecGui ==
    /\ InitGui
    /\ [][NextGui]_vars
    /\ WF_vars(\/ batch_worker_l254 \/ batch_worker_l274 \/ batch_worker_l282
               \/ batch_worker_l299 \/ process_batch_in_call)

\* ======================================================================
\* The static utilities, called on their own
\* ======================================================================
\* Text is a sequence of one-character strings.

\* ------------------------------------------------- utilities/date_parser.py
\* The number of the month whose abbreviation (Jan|Feb|...|Dec of line 26,
\* %b of line 38) is cs, case ignored; 0 when cs is none of them.
MonthOfName(cs) ==
    LET abbr == << <<"j", "a", "n">>, <<"f", "e", "b">>, <<"m", "a", "r">>,
                   <<"a", "p", "r">>, <<"m", "a", "y">>, <<"j", "u", "n">>,
                   <<"j", "u", "l">>, <<"a", "u", "g">>, <<"s", "e", "p">>,
                   <<"o", "c", "t">>, <<"n", "o", "v">>, <<"d", "e", "c">> >>
        \* the capitals that occur in the abbreviations
        up == <<"J", "F", "M", "A", "S", "O", "N", "D", "E", "B", "R", "P", "Y",
                "U", "L", "G", "C", "T", "V">>
        lo == <<"j", "f", "m", "a", "s", "o", "n", "d", "e", "b", "r", "p", "y",
                "u", "l", "g", "c", "t", "v">>
        Low(c) == IF \E k \in DOMAIN up : up[k] = c
                  THEN lo[CHOOSE k \in DOMAIN up : up[k] = c]
                  ELSE c
        low == [k \in DOMAIN cs |-> Low(cs[k])]
    IN  IF \E k \in 1..12 : abbr[k] = low
        THEN CHOOSE k \in 1..12 : abbr[k] = low
        ELSE 0

\* int() of a non-empty sequence of digits.
RECURSIVE int(_)
int(cs) ==
    LET digit == <<"0", "1", "2", "3", "4", "5", "6", "7", "8", "9">>
    IN  IF cs = << >> THEN 0
        ELSE 10 * int(SubSeq(cs, 1, Len(cs) - 1))
             + (CHOOSE v \in 0..9 : digit[v + 1] = cs[Len(cs)])

\* Line 20: os.path.splitext(filename)[0]. The extension starts at the last
\* dot that has a character other than a dot before it.
splitext(filename) ==
    LET dots == {k \in DOMAIN filename :
                    /\ filename[k] = "."
                    /\ \E j \in 1..(k - 1) : filename[j] # "."}
    IN  IF dots = {} THEN filename
        ELSE SubSeq(filename, 1, (CHOOSE k \in dots : \A j \in dots : j <= k) - 1)

\* Line 30: re.search(patterns[n], stem, re.IGNORECASE): the groups of the
\* leftmost match of the n-th pattern of lines 23-26, << >> when none.
re_search(n, stem) ==
    LET L == Len(stem)
        IsDigit(k) == k \in 1..L /\ stem[k] \in {"0", "1", "2", "3", "4", "5", "6",
                                                 "7", "8", "9"}
        \* [-_.]
        IsSep(k) == k \in 1..L /\ stem[k] \in {"-", "_", "."}
        \* [-_.\s]
        IsSepS(k) == k \in 1..L /\ stem[k] \in {"-", "_", ".", " "}
        \* [a-z] under IGNORECASE
        IsLetter(k) == k \in 1..L /\ stem[k] \in
                          {"a", "b", "c", "d", "e", "f", "g", "h", "i", "j", "k",
                           "l", "m", "n", "o", "p", "q", "r", "s", "t", "u", "v",
                           "w", "x", "y", "z", "A", "B", "C", "D", "E", "F", "G",
                           "H", "I", "J", "K", "L", "M", "N", "O", "P", "Q", "R",
                           "S", "T", "U", "V", "W", "X", "Y", "Z"}
        Digits(a, b) == \A k \in a..b : IsDigit(k)
        \* the end of the longest run of positions from a that satisfy Is
        RunEnd(a, Is(_)) ==
            CHOOSE e \in (a - 1)..L :
                /\ \A k \in a..e : Is(k)
                /\ ~Is(e + 1)
        \* the groups of the match of the month-name pattern at p
        Name(p) ==
            LET a == RunEnd(p + 3, IsLetter)
                b == RunEnd(a + 1, IsSepS)
                c == RunEnd(b + 1, IsDigit)
                d == RunEnd(c + 1, IsSepS)
            IN  IF /\ p + 2 <= L
                   /\ MonthOfName(SubSeq(stem, p, p + 2)) # 0
                   /\ b > a
                   /\ c - b \in {1, 2}
                   /\ d > c
                   /\ Digits(d + 1, d + 4)
                THEN <<SubSeq(stem, p, p + 2), SubSeq(stem, b + 1, c),
                       SubSeq(stem, d + 1, d + 4)>>
                ELSE << >>
        At(p) ==
            CASE n = 1 ->
                   IF /\ Digits(p, p + 3) /\ IsSep(p + 4) /\ Digits(p + 5, p + 6)
                      /\ IsSep(p + 7) /\ Digits(p + 8, p + 9)
                   THEN <<SubSeq(stem, p, p + 3), SubSeq(stem, p + 5, p + 6),
                          SubSeq(stem, p + 8, p + 9)>>
                   ELSE << >>
              [] n = 2 ->
                   IF Digits(p, p + 7)
                   THEN <<SubSeq(stem, p, p + 3), SubSeq(stem, p + 4, p + 5),
                          SubSeq(stem, p + 6, p + 7)>>
                   ELSE << >>
              [] n = 3 ->
                   IF /\ Digits(p, p + 1) /\ IsSep(p + 2) /\ Digits(p + 3, p + 4)
                      /\ IsSep(p + 5) /\ Digits(p + 6, p + 9)
                   THEN <<SubSeq(stem, p, p + 1), SubSeq(stem, p + 3, p + 4),
                          SubSeq(stem, p + 6, p + 9)>>
                   ELSE << >>
              [] OTHER -> Name(p)
        starts == {p \in 1..L : At(p) # << >>}
    IN  IF starts = {} THEN << >>
        ELSE At(CHOOSE p \in starts : \A q \in starts : p <= q)

\* No date: the (None, None) of line 48, and the ValueError inside strptime.
NoDate == [date |-> << >>, day |-> ""]

\* datetime(y, m, d) and its strftime('%A') (line 43): NoDate when the
\* constructor raises ValueError (year 0, a day the month does not have).
MakeDate(y, m, d) ==
    LET leap == y % 4 = 0 /\ (y % 100 # 0 \/ y % 400 = 0)
        len == <<31, IF leap THEN 29 ELSE 28, 31, 30, 31, 30, 31, 31, 30, 31, 30, 31>>
        RECURSIVE Before(_)
        Before(k) == IF k = 0 THEN 0 ELSE len[k] + Before(k - 1)
        ordinal == (y - 1) * 365 + (y - 1) \div 4 - (y - 1) \div 100
                   + (y - 1) \div 400 + Before(m - 1) + d
        names == <<"Monday", "Tuesday", "Wednesday", "Thursday", "Friday",
                   "Saturday", "Sunday">>
    IN  IF y >= 1 /\ m \in 1..12 /\ d >= 1 /\ d <= len[m]
        THEN [date |-> <<y, m, d>>, day |-> names[((ordinal + 6) % 7) + 1]]
        ELSE NoDate

\* Lines 38 and 41: datetime.strptime(date_str, fmt), fmt as its directives
\* and literal characters. The directives are matched as the regular
\* expressions of the library, alternatives in their order: %Y four digits;
\* %m 1[0-2] | 0[1-9] | [1-9]; %d 3[01] | [12]\d | 0[1-9] | [1-9]; %b a month
\* abbreviation; a blank of the format one or more blanks. Text left after the
\* match is a ValueError.
strptime(date_str, fmt) ==
    LET L == Len(date_str)
        none == [y |-> 0, m |-> 0, d |-> 0, end |-> 0]
        Num(a, b) == IF b <= L /\ \A k \in a..b : date_str[k] \in
                            {"0", "1", "2", "3", "4", "5", "6", "7", "8", "9"}
                     THEN int(SubSeq(date_str, a, b))
                     ELSE -1
        RECURSIVE Match(_, _, _)
        Match(k, j, acc) ==
            IF j > Len(fmt) THEN [acc EXCEPT !.end = k]
            ELSE CASE fmt[j] = "%Y" ->
                        IF Num(k, k + 3) >= 0
                        THEN Match(k + 4, j + 1, [acc EXCEPT !.y = Num(k, k + 3)])
                        ELSE none
                   [] fmt[j] = "%m" ->
                        LET two == IF Num(k, k + 1) \in 1..12 /\ date_str[k] \in {"0", "1"}
                                   THEN Match(k + 2, j + 1,
                                              [acc EXCEPT !.m = Num(k, k + 1)])
                                   ELSE none
                        IN  IF two # none THEN two
                            ELSE IF Num(k, k) \in 1..9
                            THEN Match(k + 1, j + 1, [acc EXCEPT !.m = Num(k, k)])
                            ELSE none
                   [] fmt[j] = "%d" ->
                        LET two == IF Num(k, k + 1) \in 1..31 /\ Num(k, k) \in 0..3
                                   THEN Match(k + 2, j + 1,
                                              [acc EXCEPT !.d = Num(k, k + 1)])
                                   ELSE none
                        IN  IF two # none THEN two
                            ELSE IF Num(k, k) \in 1..9
                            THEN Match(k + 1, j + 1, [acc EXCEPT !.d = Num(k, k)])
                            ELSE none
                   [] fmt[j] = "%b" ->
                        IF k + 2 <= L /\ MonthOfName(SubSeq(date_str, k, k + 2)) # 0
                        THEN Match(k + 3, j + 1,
                                   [acc EXCEPT !.m = MonthOfName(SubSeq(date_str, k, k + 2))])
                        ELSE none
                   [] fmt[j] = " " ->
                        LET e == CHOOSE e \in (k - 1)..L :
                                     /\ \A q \in k..e : date_str[q] = " "
                                     /\ (e + 1 <= L => date_str[e + 1] # " ")
                        IN  IF e >= k THEN Match(e + 1, j + 1, acc) ELSE none
                   [] OTHER ->
                        IF k <= L /\ date_str[k] = fmt[j]
                        THEN Match(k + 1, j + 1, acc)
                        ELSE none
        found == Match(1, 1, none)
    IN  IF found = none \/ found.end # L + 1 THEN NoDate
        ELSE MakeDate(found.y, found.m, found.d)
\* DateParser.detect_date_from_filename (lines 10-48): the first pattern, in
\* the order of lines 23-26, that matches and whose groups strptime accepts.
\* Lines 22-27 pair each of the first three patterns with a strptime format;
\* line 40 joins the groups with "-" whatever the format is.
detect_date_from_filename(filename) ==
    LET name_without_ext == splitext(filename)
        date_format == << <<"%Y", "-", "%m", "-", "%d">>,
                          <<"%Y", "%m", "%d">>,
                          <<"%m", "-", "%d", "-", "%Y">> >>
        \* str(int(cs)), lines 35-37
        RECURSIVE Unpad(_)
        Unpad(cs) == IF Len(cs) > 1 /\ Head(cs) = "0" THEN Unpad(Tail(cs)) ELSE cs
        Try(n) ==
            LET match == re_search(n, name_without_ext)
            IN  IF match = << >> THEN NoDate
                ELSE IF n = 4
                THEN strptime(match[1] \o <<" ">> \o Unpad(match[2]) \o <<" ">>
                                 \o Unpad(match[3]),
                              <<"%b", " ", "%d", " ", "%Y">>)
                ELSE strptime(JoinChars(match, <<"-">>), date_format[n])
        hits == {n \in 1..4 : Try(n) # NoDate}
    IN  IF hits = {} THEN NoDate
        ELSE Try(CHOOSE n \in hits : \A k \in hits : n <= k)

\* File names: an optional prefix, one or two dates in the four layouts of
\* the help text (valid ones, month 13, day 32, 29 February of a common
\* year), an optional extension.
Filenames ==
    LET Y == {<<"2", "0", "2", "4">>, <<"2", "0", "2", "3">>}
        M == {<<"0", "2">>, <<"0", "3">>, <<"1", "3">>}
        D == {<<"1", "5">>, <<"2", "9">>, <<"3", "2">>}
        S == {<<"-">>, <<".">>}
        iso == {y \o s \o m \o s \o d : y \in Y, m \in M, d \in D, s \in S}
        compact == {y \o m \o d : y \in Y, m \in M, d \in D}
        us == {m \o s \o d \o s \o y : y \in Y, m \in M, d \in D, s \in S}
        named == {mon \o s \o d \o s \o y :
                     mon \in {<<"M", "a", "r", "c", "h">>, <<"f", "e", "b">>},
                     d \in D \cup {<<"5">>}, y \in Y, s \in {<<"_">>, <<" ">>}}
        one == iso \cup compact \cup us \cup named
        first == {<<"2", "0", "2", "4", "-", "1", "3", "-", "1", "5">>,
                  <<"2", "0", "2", "4", "1", "3", "1", "5">>,
                  <<"2", "0", "2", "4", "0", "3", "1", "5">>,
                  <<"0", "3", "-", "3", "2", "-", "2", "0", "2", "4">>}
        second == {<<"2", "0", "2", "3", "-", "0", "2", "-", "1", "5">>,
                   <<"2", "0", "2", "3", "0", "2", "1", "5">>,
                   <<"0", "2", "-", "1", "5", "-", "2", "0", "2", "3">>,
                   <<"F", "e", "b", "_", "1", "5", "_", "2", "0", "2", "3">>}
        two == {a \o <<"_">> \o b : a \in first, b \in second}
    IN  {pre \o body \o ext :
            pre \in {<< >>, <<"x", "_">>, <<"1">>},
            body \in one \cup two,
            ext \in {<< >>, <<".", "m", "p", "3">>}}

\* A call of detect_date_from_filename.
detect_date_from_filename_call ==
    /\ ut_pc = "detect_date_from_filename"
    /\ ut_pc' = "detect_date_from_filename_done"
    /\ ut_ret' = detect_date_from_filename(ut_arg)
    /\ UNCHANGED ut_arg
    /\ UNCHANGED <<batchVars, obsVars, tsVars, trVars, feVars>>

\* ------------------------------------------------ utilities/format_utils.py
\* The bounds of the texts and widths handed to format_text_with_line_breaks.
MaxText == 5
MaxWidth == 3

\* Line 68: the word still fits on the current line.
Fits_OneMore(test_line, max_chars) == Len(test_line) <= max_chars + 1
Fits(test_line, max_chars) == Len(test_line) <= max_chars

\* FormatUtils.format_text_with_line_breaks (lines 32-81) on a str: "ValueError"
\* for a negative width (lines 49-50), the text itself for width 0 (lines
\* 51-52), otherwise every paragraph refilled word by word (lines 54-81).
format_text_with_line_breaks(text, max_chars) ==
    LET \* str.split(sep) for a one-character sep: the pieces between them
        RECURSIVE Split(_, _)
        Split(cs, sep) ==
            IF \A k \in DOMAIN cs : cs[k] # sep THEN <<cs>>
            ELSE LET k == CHOOSE k \in DOMAIN cs :
                              cs[k] = sep /\ \A j \in 1..(k - 1) : cs[j] # sep
                 IN  <<SubSeq(cs, 1, k - 1)>> \o Split(SubSeq(cs, k + 1, Len(cs)), sep)
        \* para.split(), line 62: the runs of non-blank characters
        Words(para) == SelectSeq(Split(para, " "), LAMBDA w : w # << >>)
        \* lines 66-77
        RECURSIVE Fill(_, _, _)
        Fill(words, current_line, lines) ==
            IF words = << >>
            THEN IF current_line # << >> THEN Append(lines, current_line) ELSE lines
            ELSE LET word == Head(words)
                     test_line == current_line
                                  \o (IF current_line # << >> THEN <<" ">> ELSE << >>)
                                  \o word
                 IN  IF Fits(test_line, max_chars)
                     THEN Fill(Tail(words), test_line, lines)
                     ELSE Fill(Tail(words), word,
                               IF current_line # << >> THEN Append(lines, current_line)
                               ELSE lines)
        \* lines 58-60 and 79
        Para(para) ==
            IF StripChars(para) = << >> THEN << >>
            ELSE JoinChars(Fill(Words(para), << >>, << >>), <<"\n">>)
        paragraphs == Split(text, "\n")
    IN  IF max_chars < 0 THEN "ValueError"
        ELSE IF max_chars = 0 THEN text
        ELSE JoinChars([k \in DOMAIN paragraphs |-> Para(paragraphs[k])], <<"\n">>)

\* The texts: two letters, blanks and line ends, up to MaxText characters.
Texts == UNION {[1..n -> {"a", "b", " ", "\n"}] : n \in 0..MaxText}

\* A call of format_text_with_line_breaks.
format_text_with_line_breaks_call ==
    /\ ut_pc = "format_text_with_line_breaks"
    /\ ut_pc' = "format_text_with_line_breaks_done"
    /\ ut_ret' = format_text_with_line_breaks(ut_arg.text, ut_arg.max_chars)
    /\ UNCHANGED ut_arg
    /\ UNCHANGED <<batchVars, obsVars, tsVars, trVars, feVars>>

\* The seconds handed to format_timestamp: past two hours.
MaxSeconds == 7300

\* A call of format_timestamp.
format_timestamp_call ==
    /\ ut_pc = "format_timestamp"
    /\ ut_pc' = "format_timestamp_done"
    /\ ut_ret' = format_timestamp(ut_arg.seconds, ut_arg.format_type)
    /\ UNCHANGED ut_arg
    /\ UNCHANGED <<batchVars, obsVars, tsVars, trVars, feVars>>

\* --------------------------------------------- the transcript's header
\* audio_transcribe_cli.py lines 92-127: the header fields of
\* transcribe_single_file in the order they are appended. Line 112 divides
\* by processing_time whenever duration > 0.
transcribe_single_file_header(r) ==
    IF r.duration /\ ~r.processing_time THEN <<"ZeroDivisionError">>
    ELSE <<"Transcript of">>
         \o (IF r.detected_date THEN <<"Recording Date">> ELSE << >>)
         \o <<"Transcribed", "File Size">>
         \o (IF r.audio_info THEN <<"Audio Format">> ELSE << >>)
         \o (IF r.mp3_tags THEN <<"MP3 Tags">> ELSE << >>)
         \o (IF r.duration THEN <<"Duration">> ELSE << >>)
         \o <<"Processing Time">>
         \o (IF r.duration THEN <<"Speed">> ELSE << >>)
         \o <<"Engine", "Model", "Compute Precision">>
         \o (IF r.gpu_available THEN <<"GPU">> ELSE <<"Device">>)
         \o <<"Language">>
         \o (IF r.avg_confidence THEN <<"Confidence">> ELSE << >>)

\* single_file_tab.py lines 287-321: the same statements in the GUI worker.
transcribe_worker_header(r) ==
    IF r.duration /\ ~r.processing_time THEN <<"ZeroDivisionError">>
    ELSE <<"Transcript of">>
         \o (IF r.detected_date THEN <<"Recording Date">> ELSE << >>)
         \o <<"Transcribed", "File Size">>
         \o (IF r.audio_info THEN <<"Audio Format">> ELSE << >>)
         \o (IF r.mp3_tags THEN <<"MP3 Tags">> ELSE << >>)
         \o (IF r.duration THEN <<"Duration">> ELSE << >>)
         \o <<"Processing Time">>
         \o (IF r.duration THEN <<"Speed">> ELSE << >>)
         \o <<"Engine", "Model", "Compute Precision">>
         \o (IF r.gpu_available THEN <<"GPU">> ELSE <<"Device">>)
         \o <<"Language">>
         \o (IF r.avg_confidence THEN <<"Confidence">> ELSE << >>)

\* batch_processor.py lines 171-210: the fields _process_single_file writes.
\* Line 196 guards the Speed line by duration > 0 and process_time > 0, and
\* no line names the GPU or the device.
process_single_file_header(r) ==
    <<"Transcript of">>
    \o (IF r.detected_date THEN <<"Recording Date">> ELSE << >>)
    \o <<"Transcribed", "File Size">>
    \o (IF r.audio_info THEN <<"Audio Format">> ELSE << >>)
    \o (IF r.mp3_tags THEN <<"MP3 Tags">> ELSE << >>)
    \o (IF r.duration THEN <<"Duration">> ELSE << >>)
    \o <<"Processing Time">>
    \o (IF r.duration /\ r.processing_time THEN <<"Speed">> ELSE << >>)
    \o <<"Engine", "Model", "Compute Precision", "Language">>
    \o (IF r.avg_confidence THEN <<"Confidence">> ELSE << >>)

\* The three call sites assemble the header of one transcription result.
build_header ==
    /\ ut_pc = "header"
    /\ ut_pc' = "header_done"
    /\ ut_ret' = [cli |-> transcribe_single_file_header(ut_arg),
                  gui |-> transcribe_worker_header(ut_arg),
                  batch |-> process_single_file_header(ut_arg)]
    /\ UNCHANGED ut_arg
    /\ UNCHANGED <<batchVars, obsVars, tsVars, trVars, feVars>>

\* ---------------------------------------------------------- specification
\* One call of a utility, or one assembly of the header, its arguments drawn
\* from the bounded sets.
InitUtil ==
    /\ InitProcessor
    /\ InitNoTimestamps
    /\ InitNoTranscribe
    /\ InitNoFrontend
    /\ options = DefaultOptions
    /\ tree = {}
    /\ outputs = [out \in OutPaths |-> Absent]
    /\ model = "none"
    /\ ut_ret = << >>
    /\ \/ ut_pc = "detect_date_from_filename" /\ ut_arg \in Filenames
       \/ /\ ut_pc = "format_text_with_line_breaks"
          /\ ut_arg \in [text : Texts, max_chars : -1..MaxWidth]
       \/ /\ ut_pc = "format_timestamp"
          /\ ut_arg \in [seconds : 0..MaxSeconds, format_type : TsStyles]
       \* what decides the header: a date was detected, the audio format is
       \* known, the file has MP3 tags, the engine reported a duration, the
       \* clock advanced during the transcription, a GPU is available, the
       \* engine reported a confidence
       \/ /\ ut_pc = "header"
          /\ ut_arg \in [detected_date : BOOLEAN, audio_info : BOOLEAN,
                          mp3_tags : BOOLEAN, duration : BOOLEAN,
                          processing_time : BOOLEAN, gpu_available : BOOLEAN,
                          avg_confidence : BOOLEAN]

NextUtil ==
    \/ detect_date_from_filename_call
    \/ format_text_with_line_breaks_call
    \/ format_timestamp_call
    \/ build_header

SpecUtil == InitUtil /\ [][NextUtil]_vars

\* ------------------------------------------------------------------ claims
\* Positions at which no file is in flight and the counters are not being reset.
BetweenFiles == pc \in {"l63", "l84", "l90", "raised"} \/ (pc = "idle" /\ ret.returned)

\* The process_batch call has returned its statistics.
Returned == pc = "idle" /\ ret.returned

Range(f) == {f[k] : k \in DOMAIN f}
Count(f, S) == Cardinality({k \in DOMAIN f : f[k] \in S})

\* C1: whatever get_statistics returns, when its four reads saw one moment of
\* the processor, has successful + failed <= processed <= total.
C1_StatisticsOrdered ==
    (obs_pc = "idle" /\ stats.read.total # -1 /\ stats.read = stats.at) =>
        /\ stats.read.successful + stats.read.failed <= stats.read.processed
        /\ stats.read.processed <= stats.read.total

\* C2: after a cancel() during a run, no file past the one whose iteration
\* had already passed the cancellation check is handed to the transcriber,
\* and the run returns with exactly the files up to that one processed and
\* counted.
C2_CancelStopsLaterFiles ==
    cancelFile # -1 =>
        /\ \A k \in DOMAIN transcribed : transcribed[k] <= cancelFile
        /\ Returned => /\ processed_files = cancelFile
                       /\ successful_files + failed_files = cancelFile

C2_Witness ==
    /\ Returned
    /\ cancelFile = 1
    /\ total_files = 2
    /\ transcribed = <<1>>
    /\ processed_files = 1

\* C3: with no model loaded the batch makes at most one attempt and does not
\* return normally after it (the condition is raised to the caller).
C3_NoModelStopsBatch ==
    model = "none" =>
        /\ Len(transcribed) <= 1
        /\ Returned => transcribed = << >>

\* C4: each file whose processing raised is counted once as failed and not as
\* successful, and a run that is not cancelled still processes every file.
Failures == {"size", "transcribe", "document"}

C4_FailureIsPerFile ==
    /\ pc # "raised"
    /\ BetweenFiles =>
          /\ failed_files = Count(fate, Failures)
          /\ successful_files = Count(fate, {"skipped", "success"})
    /\ (Returned /\ ~broke) =>
          /\ Len(fate) = total_files
          /\ processed_files = total_files

C4_Witness ==
    /\ Returned
    /\ Len(fate) = 2
    /\ fate[1] \in Failures
    /\ fate[2] = "success"
    /\ failed_files = 1
    /\ successful_files = 1

\* The files of this run (by number) whose document this run wrote, in whole
\* or in part, and still holds.
WrittenBy(k) ==
    LET f == outputs[OutputFile(audio_files[k], options.preserve_structure)]
    IN  f.fresh /\ f.by = Rank(audio_files[k])

\* C5 as stated: under skip_existing a file whose output existed when checked
\* is not transcribed, its output is not written, it is a success with
\* duration 0; and a completed run over N files, M of them with an existing
\* output, has processed N and called the transcriber N - M times.
C5_SkipCounts_Original ==
    options.skip_existing =>
        /\ \A k \in existed : /\ k \notin Range(transcribed)
                             /\ k \in DOMAIN fate
                             /\ fate[k] = "skipped"
                             /\ ~WrittenBy(k)
        /\ BetweenFiles =>
              /\ Count(processing_times, {0}) = Cardinality(existed)
              /\ successful_files >= Cardinality(existed)
        /\ (Returned /\ ~broke) =>
              /\ processed_files = total_files
              /\ Len(transcribed) = total_files - Cardinality(existed)

\* C5 as amended: the transcriber is called for the files that were not
\* skipped and whose size could be read (line 134 precedes the call).
C5_SkipCounts ==
    options.skip_existing =>
        /\ \A k \in existed : /\ k \notin Range(transcribed)
                             /\ k \in DOMAIN fate
                             /\ fate[k] = "skipped"
                             /\ ~WrittenBy(k)
        /\ BetweenFiles =>
              /\ Count(processing_times, {0}) = Cardinality(existed)
              /\ successful_files >= Cardinality(existed)
        /\ (Returned /\ ~broke) =>
              /\ processed_files = total_files
              /\ Len(transcribed) =
                    total_files - Cardinality(existed) - Count(fate, {"size"})

C5_Witness ==
    /\ Returned
    /\ options.skip_existing
    /\ total_files = 2
    /\ Cardinality(existed) = 1
    /\ Len(transcribed) = 1
    /\ successful_files = 2

\* C6: a run whose loop was left by the cancellation break writes no summary.
C6_NoSummaryWhenCancelled == broke => summary = "none"

C6_Witness ==
    /\ Returned
    /\ broke
    /\ options.create_summary
    /\ processed_files < total_files

\* C7: a run with create_summary whose loop ran to exhaustion attempts the
\* summary write.
C7_SummaryWhenCompleted ==
    (Returned /\ options.create_summary /\ ~broke /\ total_files >= 1) =>
        summary # "none"

\* chars_per_line < 0, or timestamps enabled with a non-positive interval.
InvalidOptions(o) ==
    \/ o.chars_per_line < 0
    \/ o.timestamps_enabled /\ o.timestamp_interval <= 0

\* C8: with invalid options the transcriber is never called and no transcript
\* is written.
C8_InvalidOptionsRejected ==
    InvalidOptions(options) =>
        /\ transcribed = << >>
        /\ \A out \in OutPaths : ~outputs[out].fresh

\* C9: a call with a non-positive interval on segments is rejected: it emits
\* no run of markers, so its lines stay fewer than any valid call's bound.
C9_NonPositiveIntervalRejected ==
    (interval_seconds <= 0 /\ segments # << >>) => Len(result) < LineCap

\* C10: every process_batch call returns its statistics, unless a transcriber
\* call never returns.
C10_Returns == (pc # "idle") ~> (Returned \/ pc = "hung")

C10_Witness ==
    /\ Returned
    /\ summary = "failed"
    /\ Count(fate, Failures) >= 1
    /\ ret.failed = failed_files

\* C11: between files and at the return, processing_times holds one entry
\* for every processed file.
C11_OneDurationPerFile ==
    BetweenFiles => Len(processing_times) = processed_files

\* C12: on every front-end path, whenever transcribe_with_metadata is about
\* to be called a model is loaded (load_model ran before, and no
\* cleanup_model since).
C12_ModelLoadedBeforeTranscribe ==
    /\ (frontend = "cli_single" /\ fe_pc = "l61") => model # "none"
    /\ (frontend = "gui_single" /\ fe_pc = "l248") => model # "none"
    /\ (frontend \in {"cli_batch", "gui_batch"} /\ pc = "l138") => model # "none"

\* A batch worker thread is in flight: started, and its UI reset has not run.
WorkerInFlight ==
    /\ frontend = "gui_batch"
    /\ \/ fe_pc # "none"
       \/ \E k \in DOMAIN after_queue : after_queue[k] = "_reset_ui"

\* C13: while a batch worker is in flight the Start button is disabled, and
\* no second worker is started.
C13_StartDisabledWhileRunning ==
    /\ WorkerInFlight => start_btn = "disabled"
    /\ ~overlap

\* C14: a run after an earlier one returns statistics of its own files only,
\* and a cancel() issued before it began neither stops nor shortens it.
C14_RerunIsFresh ==
    (rerun /\ Returned) =>
        /\ total_files = Len(audio_files)
        /\ ret.total = total_files
        /\ successful_files = Count(fate, {"skipped", "success"})
        /\ failed_files = Count(fate, Failures)
        /\ Len(processing_times) <= Len(fate)
        /\ Count(processing_times, {0}) = Count(fate, {"skipped"})
        /\ cancelFile = -1 => /\ ~broke
                              /\ processed_files = total_files
                              /\ Len(fate) = total_files

C14_Witness ==
    /\ rerun /\ Returned
    /\ stale_cancel
    /\ cancelFile = -1
    /\ total_files = 2
    /\ processed_files = 2
    /\ fate = <<"skipped", "success">>

\* C15: the discovered files are in ascending order of full path, they are
\* handed to the transcriber in that order, and while a file is being
\* processed the outcome of every earlier file has been recorded and counted.
C15_OneAtATimeInOrder ==
    /\ \A k \in 1..(Len(audio_files) - 1) :
          Rank(audio_files[k]) < Rank(audio_files[k + 1])
    /\ \A j, k \in DOMAIN transcribed : j < k => transcribed[j] < transcribed[k]
    /\ pc \in {"l127", "l134", "l138", "l157", "l165", "l169"} =>
          /\ Len(fate) = i
          /\ successful_files + failed_files = i
          /\ \A k \in DOMAIN transcribed : transcribed[k] <= i + 1
          /\ pc = "l138" => \A k \in DOMAIN transcribed : transcribed[k] <= i

C15_Witness ==
    /\ Returned
    /\ options.recursive
    /\ Len(audio_files) = 2
    /\ audio_files[1].stem = "b"
    /\ audio_files[2].dir = "sub"
    /\ transcribed = <<1, 2>>

\* C16: the progress callback has been called once for each file started, in
\* file order, with 1, 2, ... as its first argument and total_files as its
\* second; a cancelled run calls it for no file after the break.
C16_ProgressPerStartedFile ==
    /\ \A k \in DOMAIN progress : progress[k] = <<k, total_files, k>>
    /\ BetweenFiles => Len(progress) = processed_files
    /\ Returned => Len(progress) = Len(fate)

C16_Witness ==
    /\ Returned
    /\ broke
    /\ total_files = 2
    /\ progress = << <<1, 2, 1>> >>

\* C17: with a loaded model and timestamps not enabled the call returns, and
\* the text is the trimmed, non-empty segment texts joined by single spaces.
C17_PlainTextJoined ==
    (tr_pc = "done" /\ model # "none" /\ ~options.timestamps_enabled) =>
        /\ tr_result.raised = ""
        /\ tr_result.text =
              JoinChars(SelectSeq([k \in DOMAIN segments |->
                                      StripChars(Chars(segments[k].text))],
                                  LAMBDA cs : cs # << >>),
                        <<" ">>)

\* The segments are in ascending order of start.
SortedByStart ==
    \A k \in 1..(Len(segments) - 1) : segments[k].start <= segments[k + 1].start

\* The segments whose trimmed text is not empty, by position.
Spoken == {k \in DOMAIN segments : StripChars(Chars(segments[k].text)) # << >>}

\* A line of the output is a timestamp marker (no text line begins with "[").
IsMarker(line) == \E n \in 0..MaxStart : line = format_timestamp(n, format_type)

\* The number of marker lines of the output.
MarkerCount == Cardinality({k \in DOMAIN result : IsMarker(result[k])})

\* C18 as stated: for start-ordered segments and a positive interval the
\* output has floor(start of the last segment / interval) + 1 markers.
C18_MarkerCount_Original ==
    (ts_pc = "done" /\ segments # << >> /\ SortedByStart /\ interval_seconds > 0) =>
        MarkerCount = (segments[Len(segments)].start \div interval_seconds) + 1

\* C18 as amended: the count follows the last segment whose trimmed text is
\* not empty, and is 1 when there is none.
C18_MarkerCount ==
    (ts_pc = "done" /\ segments # << >> /\ SortedByStart /\ interval_seconds > 0) =>
        MarkerCount =
            IF Spoken = {} THEN 1
            ELSE LET last == CHOOSE k \in Spoken : \A j \in Spoken : j <= k
                 IN  (segments[last].start \div interval_seconds) + 1

C18_Witness ==
    /\ ts_pc = "done"
    /\ interval_seconds = 1
    /\ Len(segments) = 2
    /\ segments[1].start = 0 /\ segments[2].start = MaxStart
    /\ Spoken = {1, 2}
    /\ MarkerCount = MaxStart + 1

\* C19: once past line 148 the first line of a non-empty input's output is
\* the marker for offset 0, whatever the texts, the order and the interval;
\* the output for the empty sequence is the empty string.
C19_StartsWithZeroMarker ==
    /\ (ts_pc \in {"l150", "l159", "l166", "l171", "l174", "done"}
            /\ segments # << >>) =>
          /\ result # << >>
          /\ result[1] = CASE format_type = "MM:SS" -> "[00:00]"
                           [] format_type = "timecode" -> "[00:00:00.000]"
                           [] OTHER -> "[00:00:00]"
    /\ (ts_pc = "done" /\ segments = << >>) => Returned_text = ""

C19_Witness ==
    /\ ts_pc = "done"
    /\ Len(segments) = 2
    /\ Spoken = {}
    /\ result = <<"[00:00:00]">>
    /\ Returned_text = "[00:00:00]"

\* C20: for start-ordered segments and a positive interval the output is, for
\* each multiple T = 0, I, 2I, ... up to the last one not after the last
\* spoken segment, the marker for T followed, when some spoken segment
\* starts in [T, T + I), by one line of those segments' trimmed texts joined
\* by single spaces in input order.
C20_ConsecutiveMarkersAndBlocks ==
    (ts_pc = "done" /\ segments # << >> /\ SortedByStart /\ interval_seconds > 0) =>
        LET I == interval_seconds
            top == IF Spoken = {} THEN 0
                   ELSE LET last == CHOOSE k \in Spoken : \A j \in Spoken : j <= k
                        IN  segments[last].start \div I
            Trimmed(k) == IF segments[k].text = " b " THEN "b" ELSE segments[k].text
            RECURSIVE Block(_, _)
            Block(T, k) ==
                IF k > Len(segments) THEN << >>
                ELSE IF k \in Spoken /\ T <= segments[k].start
                                     /\ segments[k].start < T + I
                     THEN <<Trimmed(k)>> \o Block(T, k + 1)
                     ELSE Block(T, k + 1)
            RECURSIVE Lines(_)
            Lines(n) ==
                IF n > top THEN << >>
                ELSE <<format_timestamp(n * I, format_type)>>
                     \o (IF Block(n * I, 1) = << >> THEN << >>
                         ELSE <<Join(Block(n * I, 1), " ")>>)
                     \o Lines(n + 1)
        IN  result = Lines(0)

C20_Witness ==
    /\ ts_pc = "done"
    /\ interval_seconds = 1
    /\ format_type = "MM:SS"
    /\ segments = <<[start |-> 0, text |-> "a"], [start |-> 3, text |-> " b "]>>
    /\ result = <<"[00:00]", "a", "[00:01]", "[00:02]", "[00:03]", "b">>

\* C21: the call returns the date, and its weekday, of the first pattern in
\* the order of the help text whose leftmost match in the stem is a valid
\* calendar date, and (None, None) when there is none.
C21_FirstValidPattern ==
    ut_pc = "detect_date_from_filename_done" =>
        LET stem == splitext(ut_arg)
            Date(n) ==
                LET g == re_search(n, stem)
                IN  CASE g = << >> -> NoDate
                      [] n \in {1, 2} -> MakeDate(int(g[1]), int(g[2]), int(g[3]))
                      [] n = 3 -> MakeDate(int(g[3]), int(g[1]), int(g[2]))
                      [] OTHER -> MakeDate(int(g[3]), MonthOfName(g[1]), int(g[2]))
            valid == {n \in 1..4 : Date(n) # NoDate}
        IN  ut_ret = IF valid = {} THEN NoDate
                     ELSE Date(CHOOSE n \in valid : \A k \in valid : n <= k)

\* C22: for a width n > 0 the output is a fixed point of the function, and
\* each of its lines has at most n characters or is one word longer than n.
C22_ReflowIdempotentAndBounded ==
    (ut_pc = "format_text_with_line_breaks_done" /\ ut_arg.max_chars > 0) =>
        /\ format_text_with_line_breaks(ut_ret, ut_arg.max_chars) = ut_ret
        /\ \A a \in 1..(Len(ut_ret) + 1) :
           \A b \in (a - 1)..Len(ut_ret) :
              \* ut_ret[a..b] is a whole line
              ( /\ a = 1 \/ ut_ret[a - 1] = "\n"
                /\ b = Len(ut_ret) \/ ut_ret[b + 1] = "\n"
                /\ \A k \in a..b : ut_ret[k] # "\n" ) =>
                    \/ b - a + 1 <= ut_arg.max_chars
                    \/ \A k \in a..b : ut_ret[k] # " "

\* A word longer than the width is put on a line of its own and the next
\* word on the following line.
C22_Witness ==
    /\ ut_pc = "format_text_with_line_breaks_done"
    /\ ut_arg = [text |-> <<"a", "a", "a", " ", "b">>, max_chars |-> 2]
    /\ ut_ret = <<"a", "a", "a", "\n", "b">>

\* C23: for whole seconds s >= 0 the HH:MM:SS style shows the hh, mm < 60 and
\* ss < 60 with s = 3600 hh + 60 mm + ss; the MM:SS style shows the total
\* minutes and ss < 60 with s = 60 minutes + ss; any style that is not one of
\* the three known ones shows what HH:MM:SS shows.
C23_TimestampRendering ==
    ut_pc = "format_timestamp_done" =>
        LET s == ut_arg.seconds
            style == ut_arg.format_type
            hms == \E hh \in 0..(s \div 3600), mm \in 0..59, ss \in 0..59 :
                      /\ s = 3600 * hh + 60 * mm + ss
                      /\ ut_ret = "[" \o Pad2(hh) \o ":" \o Pad2(mm) \o ":"
                                      \o Pad2(ss) \o "]"
        IN  /\ style = "HH:MM:SS" => hms
            /\ style = "MM:SS" =>
                  \E tm \in 0..(s \div 60), ss \in 0..59 :
                      /\ s = 60 * tm + ss
                      /\ ut_ret = "[" \o Pad2(tm) \o ":" \o Pad2(ss) \o "]"
            /\ style \notin {"HH:MM:SS", "MM:SS", "timecode"} => hms

\* One hour, two minutes and five seconds in the MM:SS style: 62 minutes.
C23_Witness ==
    /\ ut_pc = "format_timestamp_done"
    /\ ut_arg = [seconds |-> 3725, format_type |-> "MM:SS"]
    /\ ut_ret = "[62:05]"

\* C24: for the same transcription result and options the single-file paths
\* and the batch path emit the same header fields in the same order.
C24_SameHeader ==
    ut_pc = "header_done" =>
        /\ ut_ret.cli = ut_ret.batch
        /\ ut_ret.gui = ut_ret.batch

\* C25: in the GUI a Cancel confirmed while a batch worker is in flight, the
\* loading of the model included, is honoured: no file beyond the one that
\* had passed the cancellation check (none, while the model loads) is handed
\* to the transcriber.
C25_GuiCancelHonoured ==
    (frontend = "gui_batch" /\ cancelFile # -1) =>
        \A k \in DOMAIN transcribed : transcribed[k] <= cancelFile

\* C26: within a run the discovered files have pairwise distinct output
\* paths, so no file is skipped because of a transcript another file of the
\* run wrote, and a transcript a file of the run wrote is still its own.
C26_DistinctOutputPaths ==
    LET Out(k) == OutputFile(audio_files[k], options.preserve_structure)
    IN  /\ \A a, b \in DOMAIN audio_files : a # b => Out(a) # Out(b)
        /\ \A k \in DOMAIN fate :
              /\ fate[k] = "skipped" => ~outputs[Out(k)].fresh
              /\ fate[k] = "success" => WrittenBy(k)

\* C27: with skip_existing set, a file recorded as failed has no file at its
\* output path, and no file is skipped over a document that a failed write
\* left behind.
C27_FailedLeavesNoOutput ==
    LET Out(k) == OutputFile(audio_files[k], options.preserve_structure)
    IN  \A k \in DOMAIN fate :
           /\ (options.skip_existing /\ fate[k] \in Failures) => ~Exists(Out(k))
           /\ fate[k] = "skipped" => outputs[Out(k)].kind # "partial"

\* C28: when process_batch returns, every file it started is counted once,
\* as successful or as failed, and a run whose loop was not left by the
\* cancellation break started every discovered file.
C28_StartedCountedOnce ==
    Returned =>
        /\ successful_files + failed_files = processed_files
        /\ Len(fate) = processed_files
        /\ successful_files = Count(fate, {"skipped", "success"})
        /\ failed_files = Count(fate, Failures)
        /\ ~broke => processed_files = total_files

\* A run cancelled after its first file failed: one of two files started and
\* counted.
C28_Witness ==
    /\ Returned
    /\ broke
    /\ total_files = 2
    /\ processed_files = 1
    /\ failed_files = 1
    /\ successful_files = 0

\* C29: for segments in any order and a positive interval, the lines of the
\* output that are not markers, joined by single spaces, are the trimmed
\* non-empty segment texts joined by single spaces in input order.
C29_TextPreserved ==
    (ts_pc = "done" /\ interval_seconds > 0) =>
        Join(SelectSeq(result, LAMBDA line : ~IsMarker(line)), " ")
          = Join(SelectSeq([k \in DOMAIN segments |-> Strip(segments[k].text)],
                           LAMBDA t : t # ""),
                 " ")

\* Segments out of order: the later one first.
C29_Witness ==
    /\ ts_pc = "done"
    /\ interval_seconds = 2
    /\ format_type = "HH:MM:SS"
    /\ segments = <<[start |-> 3, text |-> " b "], [start |-> 0, text |-> "a"]>>
    /\ result = <<"[00:00:00]", "[00:00:02]", "b a">>

\* C30: every run of the GUI batch worker, however it ends, eventually
\* leaves no model loaded and has handed _reset_ui and unfreeze_all_tabs to
\* Tk's after().
C30_WorkerAlwaysCleansUp ==
    (frontend = "gui_batch" /\ fe_pc # "none") ~>
        /\ fe_pc = "none"
        /\ model = "none"
        /\ Len(after_queue) >= 2
        /\ SubSeq(after_queue, Len(after_queue) - 1, Len(after_queue))
             = <<"_reset_ui", "unfreeze_all_tabs">>

\* A worker that ended by an exception before process_batch returned
\* anything: the model is released and the reset handed to Tk.
C30_Witness ==
    /\ frontend = "gui_batch"
    /\ fe_pc = "none"
    /\ ~ret.returned
    /\ tabs_frozen
    /\ model = "none"
    /\ after_queue = <<"_reset_ui", "unfreeze_all_tabs">>

====
